---- MODULE Spec2Model ----
(***************************************************************************)
(* Model of the project-connect data layer: the relations, row-level       *)
(* security policies and triggers of supabase/migrations, driven by the    *)
(* store calls an authenticated identity can issue.                        *)
(*                                                                         *)
(* Row-level security is modelled as PostgreSQL evaluates it:              *)
(*   - SELECT: a row is returned iff some SELECT policy's USING holds;     *)
(*   - INSERT: the new row must satisfy some INSERT policy's WITH CHECK,   *)
(*     otherwise the statement fails with an error;                        *)
(*   - UPDATE / DELETE: a row that fails every USING expression (or that   *)
(*     the caller cannot SELECT) is silently skipped: the statement         *)
(*     succeeds and affects zero rows;                                     *)
(*   - UPDATE: a policy without WITH CHECK uses its USING expression as    *)
(*     the check of the new row; a new row that fails every check makes    *)
(*     the statement fail with an error.                                   *)
(***************************************************************************)
EXTENDS Integers, FiniteSets, Sequences, TLC

\* ---------------------------------------------------------------- bounds
MaxUsers == 2
MaxRequests == 1
MaxComments == 1
MaxNotifications == 1
MaxAttachments == 2
MaxFiles == 2

\* ---------------------------------------------------------------- domains
Null == 0
UserIds == 1..MaxUsers
RequestIds == 1..MaxRequests
CommentIds == 1..MaxComments
NotificationIds == 1..MaxNotifications
AttachmentIds == 1..MaxAttachments

app_role == {"user", "admin"}
request_status == {"pending", "in_review", "approved", "rejected"}
confidentiality_level == {"public", "internal", "restricted"}

\* the ids of the project types RequestForm offers
PROJECT_TYPES == {"research", "threat-intelligence", "prototype", "advisory",
                  "training", "other"}

\* text values: what a create call supplies, and what an update may write over it
Titles == {"t1"}
EditedTitles == {"t2"}
CommentTexts == {"c1"}
EditedCommentTexts == {"c2"}
\* SQL NULL of a text value
NullText == "NULL"
\* raw_user_meta_data->>'full_name': absent or a supplied name
MetaNames == {NullText, "n1"}
\* text that the cast ::boolean accepts
BooleanTexts == {"true", "false"}
\* raw_user_meta_data->>'is_admin_signup': absent, the text of a boolean, or
\* text that is no boolean
MetaFlags == {NullText, "true", "false", "junk"}
\* a column left out of the SET list of an UPDATE
Keep == "keep"

\* NEW.email: one address per identity
Emails == <<"e1", "e2", "e3", "e4", "e5">>
EmailOf(id) == Emails[id]

VARIABLES
  users,            \* auth.users: the identities that signed up
  nextUser,         \* next identity id
  raw_user_meta_data, \* auth.users.raw_user_meta_data, keyed by identity
  profiles,         \* public.profiles, keyed by user_id (UNIQUE)
  user_roles,       \* public.user_roles: set of [user_id, role]
  project_requests, \* public.project_requests, keyed by id
  nextRequest,      \* gen_random_uuid() for project_requests
  comments,         \* public.comments, keyed by id
  nextComment,
  notifications,    \* public.notifications, keyed by id
  nextNotification,
  request_attachments, \* public.request_attachments, keyed by id
  nextAttachment,
  objects,          \* storage.objects of bucket request-attachments, keyed by
                    \* the generated file name (the last segment of the key)
  nextObject,       \* crypto.randomUUID() for file names
  page,             \* RequestDetail: the request it loaded and its attachments
  pendingFiles,     \* FileUpload / RequestForm: the files selected for upload
  formData,         \* RequestForm: the fields of the form
  requests,         \* AllRequests: the list of requests as loaded
  selectedRequest,  \* AllRequests: the request handed to RequestDetailDialog
  inflight,         \* AllRequests: the status updates that were sent and have
                    \* not come back, each with the list its handler closed over
  auth,             \* useAuth(): user, role and loading of the browser session
  route,            \* the page the router shows
  hops,             \* navigate() calls since the address was entered
  lastOp            \* the store call being answered: what it returns to its
                    \* caller, with the tables as they were when it was issued

authVars == <<users, nextUser, raw_user_meta_data, profiles, user_roles>>
requestVars == <<project_requests, nextRequest>>
commentVars == <<comments, nextComment>>
notificationVars == <<notifications, nextNotification>>
attachmentVars == <<request_attachments, nextAttachment>>
storageVars == <<objects, nextObject>>
clientVars == <<page, pendingFiles>>
adminVars == <<requests, selectedRequest, inflight>>
navVars == <<auth, route, hops>>
\* the state of the components besides RequestDetail and the file inputs
viewVars == <<formData, requests, selectedRequest, inflight, auth, route, hops>>
vars == <<users, nextUser, raw_user_meta_data, profiles, user_roles,
          project_requests, nextRequest, comments, nextComment,
          notifications, nextNotification, request_attachments, nextAttachment,
          objects, nextObject, page, pendingFiles, formData, requests,
          selectedRequest, inflight, auth, route, hops, lastOp>>

\* ---------------------------------------------------------------- helpers
NoTables ==
  [project_requests |-> <<>>, comments |-> <<>>, notifications |-> <<>>,
   request_attachments |-> <<>>, objects |-> <<>>, profiles |-> <<>>,
   user_roles |-> {}]

Tables ==
  [project_requests |-> project_requests, comments |-> comments,
   notifications |-> notifications, request_attachments |-> request_attachments,
   objects |-> objects, profiles |-> profiles, user_roles |-> user_roles]

\* the answer to a store call, and the tables the call was evaluated on
Op(op, caller, target, args, result, rows) ==
  [op |-> op, caller |-> caller, target |-> target, args |-> args,
   result |-> result, rows |-> rows, before |-> Tables]

NoOp ==
  [op |-> "idle", caller |-> Null, target |-> Null, args |-> <<>>, result |-> "ok",
   rows |-> {}, before |-> NoTables]

\* RequestDetail before fetchRequest has answered: no request, spinner shown
NoPage == [user |-> Null, request |-> Null, status |-> NullText, attachments |-> <<>>]

\* useAuth() before the session is known
NoSession == [user |-> Null, role |-> NullText, loading |-> TRUE]

\* AllRequests with the dialog closed: selectedRequest is null
NoSelection == [id |-> Null, status |-> NullText, submitter_name |-> NullText]

\* RequestForm as it is mounted, and as handleSubmit leaves it after a success
NoForm == [title |-> "", projectTypes |-> <<>>, confidentialityLevel |-> "internal"]

\* the store serialises the calls: one is answered before the next is taken
Idle == lastOp = NoOp

Restrict(f, S) == [x \in S |-> f[x]]

COALESCE(a, b) == IF a = NullText THEN b ELSE a

has_role(_user_id, _role) ==
  \E r \in user_roles : r.user_id = _user_id /\ r.role = _role

get_request_owner(_request_id) ==
  IF _request_id \in DOMAIN project_requests
    THEN project_requests[_request_id].user_id
    ELSE Null

\* ------------------------------------------------- project_requests policies
\* mutant: USING (auth.uid() IS NOT NULL)
Users_can_view_own_requests_AnySignedIn(uid, row) == uid # Null

Users_can_view_own_requests(uid, row) == uid = row.user_id

Admins_can_view_all_requests(uid, row) == has_role(uid, "admin")

Users_can_insert_own_requests(uid, row) == uid = row.user_id

Users_can_update_own_requests(uid, row) ==
  uid = row.user_id /\ row.status = "pending"

\* mutant: decided requests are closed to the admin as well
Admins_can_update_any_request_OpenOnly(uid, row) ==
  has_role(uid, "admin") /\ row.status \in {"pending", "in_review"}

Admins_can_update_any_request(uid, row) == has_role(uid, "admin")

Users_can_delete_own_pending_requests(uid, row) ==
  uid = row.user_id /\ row.status = "pending"

RequestSelectable(uid, row) ==
  Users_can_view_own_requests(uid, row) \/ Admins_can_view_all_requests(uid, row)

RequestInsertCheck(uid, row) == Users_can_insert_own_requests(uid, row)

RequestUpdateUsing(uid, row) ==
  Users_can_update_own_requests(uid, row) \/ Admins_can_update_any_request(uid, row)

\* mutant: the owner's policy with WITH CHECK (auth.uid() = user_id)
RequestUpdateCheck_OwnerOnly(uid, row) ==
  uid = row.user_id \/ Admins_can_update_any_request(uid, row)

\* neither UPDATE policy has a WITH CHECK: the USING expressions check the new row
RequestUpdateCheck(uid, row) ==
  Users_can_update_own_requests(uid, row) \/ Admins_can_update_any_request(uid, row)

RequestDeleteUsing(uid, row) == Users_can_delete_own_pending_requests(uid, row)

\* ------------------------------------------------- project_requests calls
\* the values a create call may supply; status Keep = column omitted (DEFAULT)
RequestInserts ==
  [user_id : UserIds, title : Titles, status : request_status \cup {Keep}]

\* the SET list of an update: Null / Keep = column not set
RequestPatches ==
  [user_id : UserIds \cup {Null}, title : EditedTitles \cup {Keep},
   status : request_status \cup {Keep}]

\* a column the call does not name takes its DEFAULT
Supplied(vals, column) == column \in DOMAIN vals

\* mutant: the insert leaves confidentiality_level to its DEFAULT
NewRequestRow_DefaultLevel(vals) ==
  [user_id |-> vals.user_id,
   title |-> vals.title,
   project_types |-> IF Supplied(vals, "project_types") THEN vals.project_types
                                                         ELSE <<>>,
   confidentiality_level |-> "internal",
   status |-> IF vals.status = Keep THEN "pending" ELSE vals.status]

\* project_types TEXT[] keeps the array it is given, order and repetitions
\* included
NewRequestRow(vals) ==
  [user_id |-> vals.user_id,
   title |-> vals.title,
   project_types |-> IF Supplied(vals, "project_types") THEN vals.project_types
                                                         ELSE <<>>,
   confidentiality_level |-> IF Supplied(vals, "confidentiality_level")
                               THEN vals.confidentiality_level ELSE "internal",
   status |-> IF vals.status = Keep THEN "pending" ELSE vals.status]

\* the cast of a supplied text to the enum confidentiality_level raises unless
\* the text is one of its labels
LevelCastFails(vals) ==
  Supplied(vals, "confidentiality_level")
    /\ vals.confidentiality_level \notin confidentiality_level

PatchedRequest(old, patch) ==
  [user_id |-> IF patch.user_id = Null THEN old.user_id ELSE patch.user_id,
   title |-> IF patch.title = Keep THEN old.title ELSE patch.title,
   project_types |-> IF Supplied(patch, "project_types") THEN patch.project_types
                                                          ELSE old.project_types,
   confidentiality_level |-> IF Supplied(patch, "confidentiality_level")
                               THEN patch.confidentiality_level
                               ELSE old.confidentiality_level,
   status |-> IF patch.status = Keep THEN old.status ELSE patch.status]

\* .from('project_requests').select('*')
SelectRequests(c) ==
  /\ Idle
  /\ c \in users
  /\ lastOp' = Op("select_requests", c, Null, <<>>, "ok",
                  {id \in DOMAIN project_requests :
                      RequestSelectable(c, project_requests[id])})
  /\ UNCHANGED <<authVars, requestVars, commentVars, notificationVars,
               attachmentVars, storageVars, clientVars, viewVars>>

\* .from('project_requests').insert(vals)
InsertRequest(c, vals) ==
  /\ Idle
  /\ c \in users
  /\ (~LevelCastFails(vals) /\ RequestInsertCheck(c, NewRequestRow(vals))) =>
       nextRequest <= MaxRequests
  /\ LET row == NewRequestRow(vals) IN
     IF LevelCastFails(vals)
       THEN /\ lastOp' = Op("insert_request", c, Null, vals,
                            "invalid_text_representation", {})
            /\ UNCHANGED requestVars
     ELSE IF ~RequestInsertCheck(c, row)
       THEN /\ lastOp' = Op("insert_request", c, Null, vals, "denied", {})
            /\ UNCHANGED requestVars
       ELSE IF row.user_id \notin users
         THEN /\ lastOp' = Op("insert_request", c, Null, vals, "fk_violation", {})
              /\ UNCHANGED requestVars
         ELSE /\ project_requests' =
                   [id \in DOMAIN project_requests \cup {nextRequest} |->
                      IF id = nextRequest THEN row ELSE project_requests[id]]
              /\ nextRequest' = nextRequest + 1
              /\ lastOp' = Op("insert_request", c, nextRequest, vals, "ok", {nextRequest})
  /\ UNCHANGED <<authVars, commentVars, notificationVars,
               attachmentVars, storageVars, clientVars, viewVars>>

\* .from('project_requests').update(patch).eq('id', id)
UpdateRequest(c, id, patch) ==
  /\ Idle
  /\ c \in users
  /\ id \in RequestIds
  /\ IF \/ id \notin DOMAIN project_requests
        \/ ~RequestSelectable(c, project_requests[id])
        \/ ~RequestUpdateUsing(c, project_requests[id])
       THEN /\ lastOp' = Op("update_request", c, id, patch, "ok", {})
            /\ UNCHANGED requestVars
       ELSE LET new == PatchedRequest(project_requests[id], patch) IN
            IF LevelCastFails(patch)
              THEN /\ lastOp' = Op("update_request", c, id, patch,
                                   "invalid_text_representation", {})
                   /\ UNCHANGED requestVars
            ELSE IF ~(RequestUpdateCheck(c, new) /\ RequestSelectable(c, new))
              THEN /\ lastOp' = Op("update_request", c, id, patch, "denied", {})
                   /\ UNCHANGED requestVars
              ELSE IF new.user_id \notin users
                THEN /\ lastOp' = Op("update_request", c, id, patch, "fk_violation", {})
                     /\ UNCHANGED requestVars
                ELSE /\ project_requests' = [project_requests EXCEPT ![id] = new]
                     /\ UNCHANGED nextRequest
                     /\ lastOp' = Op("update_request", c, id, patch, "ok", {id})
  /\ UNCHANGED <<authVars, commentVars, notificationVars,
               attachmentVars, storageVars, clientVars, viewVars>>

\* ON DELETE CASCADE: the rows that go with a set of deleted requests / comments
CascadeComments(reqs) == {k \in DOMAIN comments : comments[k].request_id \in reqs}

\* mutant: request_attachments.request_id without ON DELETE CASCADE
CascadeAttachments_None(reqs) == {}

CascadeAttachments(reqs) ==
  {a \in DOMAIN request_attachments : request_attachments[a].request_id \in reqs}

CascadeNotifications(reqs, cmts) ==
  {n \in DOMAIN notifications :
      \/ notifications[n].request_id \in reqs
      \/ notifications[n].comment_id \in cmts}

\* .from('project_requests').delete().eq('id', id)
DeleteRequest(c, id) ==
  /\ Idle
  /\ c \in users
  /\ id \in RequestIds
  /\ IF \/ id \notin DOMAIN project_requests
        \/ ~RequestSelectable(c, project_requests[id])
        \/ ~RequestDeleteUsing(c, project_requests[id])
       THEN /\ lastOp' = Op("delete_request", c, id, <<>>, "ok", {})
            /\ UNCHANGED <<requestVars, comments, notifications, request_attachments>>
       ELSE LET goneC == CascadeComments({id})
                goneN == CascadeNotifications({id}, goneC)
                goneA == CascadeAttachments({id}) IN
            /\ project_requests' =
                 Restrict(project_requests, DOMAIN project_requests \ {id})
            /\ comments' = Restrict(comments, DOMAIN comments \ goneC)
            /\ notifications' = Restrict(notifications, DOMAIN notifications \ goneN)
            /\ request_attachments' =
                 Restrict(request_attachments, DOMAIN request_attachments \ goneA)
            /\ UNCHANGED nextRequest
            /\ lastOp' = Op("delete_request", c, id, <<>>, "ok", {id})
  /\ UNCHANGED <<authVars, nextComment, nextNotification, nextAttachment,
               storageVars, clientVars, viewVars>>

\* ------------------------------------------------- comments policies
\* mutant: USING (auth.uid() IS NOT NULL)
Users_can_view_comments_on_own_requests_AnySignedIn(uid, row) == uid # Null

Users_can_view_comments_on_own_requests(uid, row) ==
  get_request_owner(row.request_id) = uid

Admins_can_view_all_comments(uid, row) == has_role(uid, "admin")

Admins_can_insert_comments(uid, row) ==
  has_role(uid, "admin") /\ uid = row.admin_id

\* mutant: the author test left out
Admins_can_update_own_comments_AnyAdmin(uid, row) == has_role(uid, "admin")

Admins_can_update_own_comments(uid, row) ==
  has_role(uid, "admin") /\ uid = row.admin_id

Admins_can_delete_own_comments(uid, row) ==
  has_role(uid, "admin") /\ uid = row.admin_id

CommentSelectable(uid, row) ==
  Users_can_view_comments_on_own_requests(uid, row)
    \/ Admins_can_view_all_comments(uid, row)

\* ------------------------------------------------- notifications policies
\* mutant: admins see every notification, as they see every other relation
Users_can_view_own_notifications_OrAdmin(uid, row) ==
  uid = row.user_id \/ has_role(uid, "admin")

Users_can_view_own_notifications(uid, row) == uid = row.user_id

Users_can_update_own_notifications(uid, row) == uid = row.user_id

Users_can_delete_own_notifications(uid, row) == uid = row.user_id

System_can_insert_notifications(uid, row) == TRUE

\* ------------------------------------------------- comment trigger
\* 'Admin ' || name || ' commented on your request: "' || title || '"';
\* the concatenation is NULL when the title is NULL
Message(name, title) == [admin |-> name, title |-> title]

MessageIsNull(m) == m.title = NullText

\* mutant: the notification goes to the comment's author
handle_new_comment_NotifyAuthor(newId, new_row) ==
  LET found == new_row.request_id \in DOMAIN project_requests
      request_title == IF found THEN project_requests[new_row.request_id].title
                                ELSE NullText
      admin_name == IF new_row.admin_id \in DOMAIN profiles
                      THEN profiles[new_row.admin_id].full_name
                      ELSE NullText
  IN [user_id |-> new_row.admin_id,
      request_id |-> new_row.request_id,
      comment_id |-> newId,
      message |-> Message(COALESCE(admin_name, "Unknown"), request_title),
      is_read |-> FALSE]

\* the row handle_new_comment inserts for the comment new_row (NEW) with id newId
handle_new_comment(newId, new_row) ==
  LET found == new_row.request_id \in DOMAIN project_requests
      request_owner_id == IF found THEN project_requests[new_row.request_id].user_id
                                   ELSE Null
      request_title == IF found THEN project_requests[new_row.request_id].title
                                ELSE NullText
      admin_name == IF new_row.admin_id \in DOMAIN profiles
                      THEN profiles[new_row.admin_id].full_name
                      ELSE NullText
  IN [user_id |-> request_owner_id,
      request_id |-> new_row.request_id,
      comment_id |-> newId,
      message |-> Message(COALESCE(admin_name, "Unknown"), request_title),
      is_read |-> FALSE]

\* NOT NULL columns of notifications
NotificationNotNull(row) ==
  row.user_id # Null /\ row.request_id # Null /\ ~MessageIsNull(row.message)

\* ------------------------------------------------- comments calls
CommentInserts ==
  [request_id : RequestIds, admin_id : UserIds, comment : CommentTexts]

CommentPatches ==
  [request_id : RequestIds \cup {Null}, admin_id : UserIds \cup {Null},
   comment : EditedCommentTexts \cup {Keep}]

PatchedComment(old, patch) ==
  [request_id |-> IF patch.request_id = Null THEN old.request_id ELSE patch.request_id,
   admin_id |-> IF patch.admin_id = Null THEN old.admin_id ELSE patch.admin_id,
   comment |-> IF patch.comment = Keep THEN old.comment ELSE patch.comment]

CommentForeignKeys(row) ==
  row.request_id \in DOMAIN project_requests /\ row.admin_id \in users

\* .from('comments').select(...)
SelectComments(c) ==
  /\ Idle
  /\ c \in users
  /\ lastOp' = Op("select_comments", c, Null, <<>>, "ok",
                  {k \in DOMAIN comments : CommentSelectable(c, comments[k])})
  /\ UNCHANGED <<authVars, requestVars, commentVars, notificationVars,
               attachmentVars, storageVars, clientVars, viewVars>>

\* .from('comments').insert(vals), with the AFTER INSERT trigger on_comment_created
InsertComment(c, vals) ==
  /\ Idle
  /\ c \in users
  /\ (Admins_can_insert_comments(c, vals) /\ CommentForeignKeys(vals)) =>
       (nextComment <= MaxComments /\ nextNotification <= MaxNotifications)
  /\ IF ~Admins_can_insert_comments(c, vals)
       THEN /\ lastOp' = Op("insert_comment", c, Null, vals, "denied", {})
            /\ UNCHANGED <<commentVars, notificationVars>>
       ELSE IF ~CommentForeignKeys(vals)
         THEN /\ lastOp' = Op("insert_comment", c, Null, vals, "fk_violation", {})
              /\ UNCHANGED <<commentVars, notificationVars>>
         ELSE LET note == handle_new_comment(nextComment, vals) IN
              IF ~NotificationNotNull(note)
                THEN /\ lastOp' = Op("insert_comment", c, Null, vals, "not_null_violation", {})
                     /\ UNCHANGED <<commentVars, notificationVars>>
                ELSE /\ comments' =
                          [k \in DOMAIN comments \cup {nextComment} |->
                             IF k = nextComment THEN vals ELSE comments[k]]
                     /\ nextComment' = nextComment + 1
                     /\ notifications' =
                          [n \in DOMAIN notifications \cup {nextNotification} |->
                             IF n = nextNotification THEN note ELSE notifications[n]]
                     /\ nextNotification' = nextNotification + 1
                     /\ lastOp' = Op("insert_comment", c, nextComment, vals, "ok", {nextComment})
  /\ UNCHANGED <<authVars, requestVars,
               attachmentVars, storageVars, clientVars, viewVars>>

\* .from('comments').update(patch).eq('id', id)
UpdateComment(c, id, patch) ==
  /\ Idle
  /\ c \in users
  /\ id \in CommentIds
  /\ IF \/ id \notin DOMAIN comments
        \/ ~CommentSelectable(c, comments[id])
        \/ ~Admins_can_update_own_comments(c, comments[id])
       THEN /\ lastOp' = Op("update_comment", c, id, patch, "ok", {})
            /\ UNCHANGED comments
       ELSE LET new == PatchedComment(comments[id], patch) IN
            IF ~(Admins_can_update_own_comments(c, new) /\ CommentSelectable(c, new))
              THEN /\ lastOp' = Op("update_comment", c, id, patch, "denied", {})
                   /\ UNCHANGED comments
              ELSE IF ~CommentForeignKeys(new)
                THEN /\ lastOp' = Op("update_comment", c, id, patch, "fk_violation", {})
                     /\ UNCHANGED comments
                ELSE /\ comments' = [comments EXCEPT ![id] = new]
                     /\ lastOp' = Op("update_comment", c, id, patch, "ok", {id})
  /\ UNCHANGED <<authVars, requestVars, nextComment, notificationVars,
               attachmentVars, storageVars, clientVars, viewVars>>

\* .from('comments').delete().eq('id', id)
DeleteComment(c, id) ==
  /\ Idle
  /\ c \in users
  /\ id \in CommentIds
  /\ IF \/ id \notin DOMAIN comments
        \/ ~CommentSelectable(c, comments[id])
        \/ ~Admins_can_delete_own_comments(c, comments[id])
       THEN /\ lastOp' = Op("delete_comment", c, id, <<>>, "ok", {})
            /\ UNCHANGED <<comments, notifications>>
       ELSE /\ comments' = Restrict(comments, DOMAIN comments \ {id})
            /\ notifications' =
                 Restrict(notifications,
                          DOMAIN notifications \ CascadeNotifications({}, {id}))
            /\ lastOp' = Op("delete_comment", c, id, <<>>, "ok", {id})
  /\ UNCHANGED <<authVars, requestVars, nextComment, nextNotification,
               attachmentVars, storageVars, clientVars, viewVars>>

\* ------------------------------------------------- notifications calls
\* a message a client writes itself
ForgedMessage == Message("forged", "forged")

NotificationInserts ==
  [user_id : UserIds, request_id : RequestIds, comment_id : CommentIds \cup {Null},
   message : {ForgedMessage}, is_read : {FALSE}]

\* the SET list of a notification update: "keep" / Null = column not set
NotificationPatches ==
  [user_id : UserIds \cup {Null}, is_read : {Keep, "true", "false"}]

PatchedNotification(old, patch) ==
  [old EXCEPT
     !.user_id = IF patch.user_id = Null THEN old.user_id ELSE patch.user_id,
     !.is_read = IF patch.is_read = Keep THEN old.is_read ELSE patch.is_read = "true"]

NotificationForeignKeys(row) ==
  /\ row.user_id \in users
  /\ row.request_id \in DOMAIN project_requests
  /\ row.comment_id = Null \/ row.comment_id \in DOMAIN comments

\* .from('notifications').select('*')
SelectNotifications(c) ==
  /\ Idle
  /\ c \in users
  /\ lastOp' = Op("select_notifications", c, Null, <<>>, "ok",
                  {n \in DOMAIN notifications :
                      Users_can_view_own_notifications(c, notifications[n])})
  /\ UNCHANGED <<authVars, requestVars, commentVars, notificationVars,
               attachmentVars, storageVars, clientVars, viewVars>>

\* .from('notifications').insert(vals)
InsertNotification(c, vals) ==
  /\ Idle
  /\ c \in users
  /\ (System_can_insert_notifications(c, vals) /\ NotificationForeignKeys(vals)) =>
       nextNotification <= MaxNotifications
  /\ IF ~System_can_insert_notifications(c, vals)
       THEN /\ lastOp' = Op("insert_notification", c, Null, vals, "denied", {})
            /\ UNCHANGED notificationVars
       ELSE IF ~NotificationForeignKeys(vals)
         THEN /\ lastOp' = Op("insert_notification", c, Null, vals, "fk_violation", {})
              /\ UNCHANGED notificationVars
         ELSE /\ notifications' =
                   [n \in DOMAIN notifications \cup {nextNotification} |->
                      IF n = nextNotification THEN vals ELSE notifications[n]]
              /\ nextNotification' = nextNotification + 1
              /\ lastOp' = Op("insert_notification", c, nextNotification, vals, "ok",
                              {nextNotification})
  /\ UNCHANGED <<authVars, requestVars, commentVars,
               attachmentVars, storageVars, clientVars, viewVars>>

\* .from('notifications').update(patch).eq('id', id)
UpdateNotification(c, id, patch) ==
  /\ Idle
  /\ c \in users
  /\ id \in NotificationIds
  /\ IF \/ id \notin DOMAIN notifications
        \/ ~Users_can_view_own_notifications(c, notifications[id])
        \/ ~Users_can_update_own_notifications(c, notifications[id])
       THEN /\ lastOp' = Op("update_notification", c, id, patch, "ok", {})
            /\ UNCHANGED notifications
       ELSE LET new == PatchedNotification(notifications[id], patch) IN
            IF ~(Users_can_update_own_notifications(c, new)
                   /\ Users_can_view_own_notifications(c, new))
              THEN /\ lastOp' = Op("update_notification", c, id, patch, "denied", {})
                   /\ UNCHANGED notifications
              ELSE IF ~NotificationForeignKeys(new)
                THEN /\ lastOp' = Op("update_notification", c, id, patch, "fk_violation", {})
                     /\ UNCHANGED notifications
                ELSE /\ notifications' = [notifications EXCEPT ![id] = new]
                     /\ lastOp' = Op("update_notification", c, id, patch, "ok", {id})
  /\ UNCHANGED <<authVars, requestVars, commentVars, nextNotification,
               attachmentVars, storageVars, clientVars, viewVars>>

\* .from('notifications').delete().eq('id', id)
DeleteNotification(c, id) ==
  /\ Idle
  /\ c \in users
  /\ id \in NotificationIds
  /\ IF \/ id \notin DOMAIN notifications
        \/ ~Users_can_view_own_notifications(c, notifications[id])
        \/ ~Users_can_delete_own_notifications(c, notifications[id])
       THEN /\ lastOp' = Op("delete_notification", c, id, <<>>, "ok", {})
            /\ UNCHANGED notifications
       ELSE /\ notifications' = Restrict(notifications, DOMAIN notifications \ {id})
            /\ lastOp' = Op("delete_notification", c, id, <<>>, "ok", {id})
  /\ UNCHANGED <<authVars, requestVars, commentVars, nextNotification,
               attachmentVars, storageVars, clientVars, viewVars>>

\* ------------------------------------------------- signup
\* the rows handle_new_user inserts for the new identity id
\* mutant: the handle_new_user of the first migration, which gives every
\* identity the role user
handle_new_user_AlwaysUser(id, meta_full_name, meta_is_admin_signup) ==
  [profile |-> [full_name |-> COALESCE(meta_full_name, EmailOf(id)),
                email |-> EmailOf(id)],
   role |-> [user_id |-> id, role |-> "user"]]

handle_new_user(id, meta_full_name, meta_is_admin_signup) ==
  LET is_admin_signup == COALESCE(meta_is_admin_signup, "false") = "true"
  IN [profile |-> [full_name |-> COALESCE(meta_full_name, EmailOf(id)),
                   email |-> EmailOf(id)],
      role |-> [user_id |-> id,
                role |-> IF is_admin_signup THEN "admin" ELSE "user"]]

\* INSERT INTO auth.users, with the AFTER INSERT trigger on_auth_user_created
SignUp(meta_full_name, meta_is_admin_signup) ==
  /\ Idle
  /\ nextUser <= MaxUsers
  /\ IF meta_is_admin_signup \notin BooleanTexts \cup {NullText}
       \* the cast ::boolean raises, the INSERT INTO auth.users is rolled back
       THEN /\ lastOp' = Op("sign_up", Null, Null,
                            [full_name |-> meta_full_name,
                             is_admin_signup |-> meta_is_admin_signup],
                            "invalid_text_representation", {})
            /\ UNCHANGED authVars
       ELSE
     LET rows == handle_new_user(nextUser, meta_full_name, meta_is_admin_signup) IN
     /\ users' = users \cup {nextUser}
     /\ nextUser' = nextUser + 1
     /\ raw_user_meta_data' =
          [u \in users \cup {nextUser} |->
             IF u = nextUser
               THEN [full_name |-> meta_full_name,
                     is_admin_signup |-> meta_is_admin_signup]
               ELSE raw_user_meta_data[u]]
     /\ profiles' = [u \in DOMAIN profiles \cup {nextUser} |->
                       IF u = nextUser THEN rows.profile ELSE profiles[u]]
     /\ user_roles' = user_roles \cup {rows.role}
     /\ lastOp' = Op("sign_up", nextUser, nextUser,
                     [full_name |-> meta_full_name,
                      is_admin_signup |-> meta_is_admin_signup],
                     "ok", {nextUser})
  /\ UNCHANGED <<requestVars, commentVars, notificationVars,
               attachmentVars, storageVars, clientVars, viewVars>>

\* ------------------------------------------------- profiles policies
Users_can_view_own_profile(uid, row) == uid = row.user_id

Admins_can_view_all_profiles(uid, row) == has_role(uid, "admin")

Users_can_insert_own_profile(uid, row) == uid = row.user_id

Users_can_update_own_profile(uid, row) == uid = row.user_id

ProfileSelectable(uid, row) ==
  Users_can_view_own_profile(uid, row) \/ Admins_can_view_all_profiles(uid, row)

\* profiles has no DELETE policy
ProfileDeleteUsing(uid, row) == FALSE

\* ------------------------------------------------- user_roles policies
Users_can_view_own_roles(uid, row) == uid = row.user_id

Admins_can_view_all_roles(uid, row) == has_role(uid, "admin")

RoleSelectable(uid, row) ==
  Users_can_view_own_roles(uid, row) \/ Admins_can_view_all_roles(uid, row)

\* mutant: CREATE POLICY "Users can insert own roles" ... WITH CHECK
\* (auth.uid() = user_id), after the pattern of the other relations
RoleInsertCheck_Own(uid, row) == uid = row.user_id

\* user_roles has SELECT policies only: with row-level security enabled, a
\* command without a policy is refused for every row
RoleInsertCheck(uid, row) == FALSE

RoleUpdateUsing(uid, row) == FALSE

RoleDeleteUsing(uid, row) == FALSE

\* ------------------------------------------------- profiles calls
\* a profile row carries its key: profiles[u].user_id = u
ProfileRow(u) == [user_id |-> u, full_name |-> profiles[u].full_name,
                  email |-> profiles[u].email]

ProfileInserts == [user_id : UserIds, full_name : {"n2"}]

\* the SET list of a profile update: Null / Keep = column not set
ProfilePatches ==
  [user_id : UserIds \cup {Null}, full_name : {Keep, "n2", NullText}]

PatchedProfile(old, patch) ==
  [user_id |-> IF patch.user_id = Null THEN old.user_id ELSE patch.user_id,
   full_name |-> IF patch.full_name = Keep THEN old.full_name ELSE patch.full_name,
   email |-> old.email]

\* .from('profiles').select(...)
SelectProfiles(c) ==
  /\ Idle
  /\ c \in users
  /\ lastOp' = Op("select_profiles", c, Null, <<>>, "ok",
                  {u \in DOMAIN profiles : ProfileSelectable(c, ProfileRow(u))})
  /\ UNCHANGED <<authVars, requestVars, commentVars, notificationVars,
               attachmentVars, storageVars, clientVars, viewVars>>

\* .from('profiles').insert(vals)
InsertProfile(c, vals) ==
  /\ Idle
  /\ c \in users
  /\ IF ~Users_can_insert_own_profile(c, vals)
       THEN /\ lastOp' = Op("insert_profile", c, Null, vals, "denied", {})
            /\ UNCHANGED profiles
       ELSE IF vals.user_id \in DOMAIN profiles
         \* UNIQUE (user_id)
         THEN /\ lastOp' = Op("insert_profile", c, Null, vals, "unique_violation", {})
              /\ UNCHANGED profiles
         ELSE /\ profiles' =
                   [u \in DOMAIN profiles \cup {vals.user_id} |->
                      IF u = vals.user_id
                        THEN [full_name |-> vals.full_name, email |-> EmailOf(u)]
                        ELSE profiles[u]]
              /\ lastOp' = Op("insert_profile", c, vals.user_id, vals, "ok",
                              {vals.user_id})
  /\ UNCHANGED <<users, nextUser, raw_user_meta_data, user_roles, requestVars,
               commentVars, notificationVars, attachmentVars, storageVars,
               clientVars, viewVars>>

\* .from('profiles').update(patch).eq('user_id', id)
UpdateProfile(c, id, patch) ==
  /\ Idle
  /\ c \in users
  /\ id \in UserIds
  /\ IF \/ id \notin DOMAIN profiles
        \/ ~ProfileSelectable(c, ProfileRow(id))
        \/ ~Users_can_update_own_profile(c, ProfileRow(id))
       THEN /\ lastOp' = Op("update_profile", c, id, patch, "ok", {})
            /\ UNCHANGED profiles
       ELSE LET new == PatchedProfile(ProfileRow(id), patch) IN
            IF ~(Users_can_update_own_profile(c, new) /\ ProfileSelectable(c, new))
              THEN /\ lastOp' = Op("update_profile", c, id, patch, "denied", {})
                   /\ UNCHANGED profiles
              ELSE IF new.full_name = NullText
                THEN /\ lastOp' = Op("update_profile", c, id, patch,
                                     "not_null_violation", {})
                     /\ UNCHANGED profiles
                ELSE /\ profiles' =
                          [profiles EXCEPT ![id] =
                             [full_name |-> new.full_name, email |-> new.email]]
                     /\ lastOp' = Op("update_profile", c, id, patch, "ok", {id})
  /\ UNCHANGED <<users, nextUser, raw_user_meta_data, user_roles, requestVars,
               commentVars, notificationVars, attachmentVars, storageVars,
               clientVars, viewVars>>

\* .from('profiles').delete().eq('user_id', id)
DeleteProfile(c, id) ==
  /\ Idle
  /\ c \in users
  /\ id \in UserIds
  /\ IF \/ id \notin DOMAIN profiles
        \/ ~ProfileSelectable(c, ProfileRow(id))
        \/ ~ProfileDeleteUsing(c, ProfileRow(id))
       THEN /\ lastOp' = Op("delete_profile", c, id, <<>>, "ok", {})
            /\ UNCHANGED profiles
       ELSE /\ profiles' = Restrict(profiles, DOMAIN profiles \ {id})
            /\ lastOp' = Op("delete_profile", c, id, <<>>, "ok", {id})
  /\ UNCHANGED <<users, nextUser, raw_user_meta_data, user_roles, requestVars,
               commentVars, notificationVars, attachmentVars, storageVars,
               clientVars, viewVars>>

\* ------------------------------------------------- user_roles calls
RoleRows == [user_id : UserIds, role : app_role]

\* .from('user_roles').select(...): rows is the set of role rows returned
SelectRoles(c) ==
  /\ Idle
  /\ c \in users
  /\ lastOp' = Op("select_roles", c, Null, <<>>, "ok",
                  {r \in user_roles : RoleSelectable(c, r)})
  /\ UNCHANGED <<authVars, requestVars, commentVars, notificationVars,
               attachmentVars, storageVars, clientVars, viewVars>>

\* .from('user_roles').insert(vals)
InsertRole(c, vals) ==
  /\ Idle
  /\ c \in users
  /\ IF ~RoleInsertCheck(c, vals)
       THEN /\ lastOp' = Op("insert_role", c, Null, vals, "denied", {})
            /\ UNCHANGED user_roles
       ELSE IF vals.user_id \notin users
         THEN /\ lastOp' = Op("insert_role", c, Null, vals, "fk_violation", {})
              /\ UNCHANGED user_roles
         ELSE IF vals \in user_roles
           \* UNIQUE (user_id, role)
           THEN /\ lastOp' = Op("insert_role", c, Null, vals, "unique_violation", {})
                /\ UNCHANGED user_roles
           ELSE /\ user_roles' = user_roles \cup {vals}
                /\ lastOp' = Op("insert_role", c, Null, vals, "ok", {vals})
  /\ UNCHANGED <<users, nextUser, raw_user_meta_data, profiles, requestVars,
               commentVars, notificationVars, attachmentVars, storageVars,
               clientVars, viewVars>>

\* .from('user_roles').update({ role }).eq('user_id', old.user_id)
\*    .eq('role', old.role)
UpdateRole(c, old, role) ==
  /\ Idle
  /\ c \in users
  /\ IF \/ old \notin user_roles
        \/ ~RoleSelectable(c, old)
        \/ ~RoleUpdateUsing(c, old)
       THEN /\ lastOp' = Op("update_role", c, Null, [old |-> old, role |-> role],
                            "ok", {})
            /\ UNCHANGED user_roles
       ELSE LET new == [old EXCEPT !.role = role] IN
            IF ~(RoleUpdateUsing(c, new) /\ RoleSelectable(c, new))
              THEN /\ lastOp' = Op("update_role", c, Null,
                                   [old |-> old, role |-> role], "denied", {})
                   /\ UNCHANGED user_roles
              ELSE /\ user_roles' = (user_roles \ {old}) \cup {new}
                   /\ lastOp' = Op("update_role", c, Null,
                                   [old |-> old, role |-> role], "ok", {new})
  /\ UNCHANGED <<users, nextUser, raw_user_meta_data, profiles, requestVars,
               commentVars, notificationVars, attachmentVars, storageVars,
               clientVars, viewVars>>

\* .from('user_roles').delete().eq('user_id', old.user_id).eq('role', old.role)
DeleteRole(c, old) ==
  /\ Idle
  /\ c \in users
  /\ IF \/ old \notin user_roles
        \/ ~RoleSelectable(c, old)
        \/ ~RoleDeleteUsing(c, old)
       THEN /\ lastOp' = Op("delete_role", c, Null, old, "ok", {})
            /\ UNCHANGED user_roles
       ELSE /\ user_roles' = user_roles \ {old}
            /\ lastOp' = Op("delete_role", c, Null, old, "ok", {old})
  /\ UNCHANGED <<users, nextUser, raw_user_meta_data, profiles, requestVars,
               commentVars, notificationVars, attachmentVars, storageVars,
               clientVars, viewVars>>

\* ------------------------------------------------- files and storage keys
MAX_FILE_SIZE == 10 * 1024 * 1024

ALLOWED_TYPES == {"image/jpeg", "image/png", "image/gif", "image/webp",
                  "application/pdf", "application/msword",
                  "application/vnd.openxmlformats-officedocument.wordprocessingml.document",
                  "application/vnd.ms-excel",
                  "application/vnd.openxmlformats-officedocument.spreadsheetml.sheet",
                  "text/plain", "text/csv"}

\* the bucket request-attachments
file_size_limit == 10485760

allowed_mime_types == ALLOWED_TYPES

\* the files a user may pick: two names, an allowed and a refused type, and
\* the sizes around the limit
FileNames == {"f1", "f2"}
FileTypes == {"application/pdf", "application/zip"}
FileSizes == {MAX_FILE_SIZE - 1, MAX_FILE_SIZE, MAX_FILE_SIZE + 1}
Files == [name : FileNames, type : FileTypes, size : FileSizes]

\* generated file names (crypto.randomUUID()): one per stored object ever made
ObjectIds == 1..MaxFiles

\* `${user.id}/${requestId}/${fileName}`
FilePath(uid, requestId, fileName) == <<uid, requestId, fileName>>

FilePaths == UserIds \X RequestIds \X ObjectIds

\* storage.foldername(name): the segments before the file name
foldername(name) == <<name[1], name[2]>>

\* ------------------------------------------------- request_attachments policies
\* get_request_owner evaluated on the requests reqs
get_request_owner_in(reqs, _request_id) ==
  IF _request_id \in DOMAIN reqs THEN reqs[_request_id].user_id ELSE Null

Users_can_view_attachments_on_own_requests(uid, row) ==
  get_request_owner(row.request_id) = uid

Admins_can_view_all_attachments(uid, row) == has_role(uid, "admin")

\* reqs: project_requests as the insert finds it
Users_can_insert_attachments_on_own_requests(uid, row, reqs) ==
  uid = row.user_id /\ get_request_owner_in(reqs, row.request_id) = uid

\* the sub-select reads project_requests with the caller's rights
Users_can_delete_own_attachments_on_pending_requests(uid, row) ==
  /\ uid = row.user_id
  /\ \E id \in DOMAIN project_requests :
        /\ RequestSelectable(uid, project_requests[id])
        /\ id = row.request_id
        /\ project_requests[id].status = "pending"

AttachmentSelectable(uid, row) ==
  Users_can_view_attachments_on_own_requests(uid, row)
    \/ Admins_can_view_all_attachments(uid, row)

AttachmentForeignKeys(row, reqs) ==
  row.request_id \in DOMAIN reqs /\ row.user_id \in users

\* ------------------------------------------------- storage.objects policies
\* mutant: WITH CHECK (bucket_id = 'request-attachments')
Users_can_upload_to_own_request_folders_AnyFolder(uid, name) == uid # Null

Users_can_upload_to_own_request_folders(uid, name) == uid = foldername(name)[1]

Users_can_view_own_request_files(uid, name) == uid = foldername(name)[1]

Admins_can_view_all_request_files(uid, name) == has_role(uid, "admin")

Users_can_delete_own_files(uid, name) == uid = foldername(name)[1]

\* storage.objects has no UPDATE policy
ObjectUpdateUsing(uid, name) == FALSE

ObjectSelectable(uid, name) ==
  Users_can_view_own_request_files(uid, name)
    \/ Admins_can_view_all_request_files(uid, name)

\* ------------------------------------------------- attachment and storage calls
\* The calls are functions of the attachment rows and stored objects they find
\* (db) and return the rows and objects they leave with the error they report,
\* so that a handler which issues several of them in a row is one step.
\* fault: the call did not reach the store (network, timeout, 5xx); it then
\* changes nothing and reports an error.
Db == [project_requests |-> project_requests, nextRequest |-> nextRequest,
       request_attachments |-> request_attachments, nextAttachment |-> nextAttachment,
       objects |-> objects, nextObject |-> nextObject]

NoError == "none"

\* supabase.storage.from('request-attachments').upload(name, file)
StorageUpload(db, uid, name, file, fault) ==
  IF fault THEN [db |-> db, error |-> "fetch_failed"]
  ELSE IF file.size > file_size_limit THEN [db |-> db, error |-> "payload_too_large"]
  ELSE IF file.type \notin allowed_mime_types
    THEN [db |-> db, error |-> "invalid_mime_type"]
  ELSE IF ~Users_can_upload_to_own_request_folders(uid, name)
    THEN [db |-> db, error |-> "denied"]
  ELSE IF name \in DOMAIN db.objects THEN [db |-> db, error |-> "duplicate"]
  ELSE [db |-> [db EXCEPT
                  !.objects = [n \in DOMAIN db.objects \cup {name} |->
                                 IF n = name THEN [owner |-> uid, size |-> file.size,
                                                   type |-> file.type]
                                             ELSE db.objects[n]],
                  !.nextObject = IF name[3] >= db.nextObject THEN name[3] + 1
                                                             ELSE db.nextObject],
        error |-> NoError]

\* supabase.storage.from('request-attachments').remove([name]): an object the
\* caller may not delete is skipped without an error
StorageRemove(db, uid, name, fault) ==
  IF fault THEN [db |-> db, error |-> "fetch_failed"]
  ELSE IF /\ name \in DOMAIN db.objects
          /\ ObjectSelectable(uid, name)
          /\ Users_can_delete_own_files(uid, name)
    THEN [db |-> [db EXCEPT !.objects = Restrict(db.objects, DOMAIN db.objects \ {name})],
          error |-> NoError]
    ELSE [db |-> db, error |-> NoError]

\* supabase.from('request_attachments').insert(row)
AttachmentInsert(db, uid, row, fault) ==
  IF fault THEN [db |-> db, error |-> "fetch_failed"]
  ELSE IF ~Users_can_insert_attachments_on_own_requests(uid, row, db.project_requests)
    THEN [db |-> db, error |-> "denied"]
  ELSE IF ~AttachmentForeignKeys(row, db.project_requests)
    THEN [db |-> db, error |-> "fk_violation"]
  ELSE [db |-> [db EXCEPT
                  !.request_attachments =
                     [a \in DOMAIN db.request_attachments \cup {db.nextAttachment} |->
                        IF a = db.nextAttachment THEN row ELSE db.request_attachments[a]],
                  !.nextAttachment = db.nextAttachment + 1],
        error |-> NoError]

\* supabase.from('request_attachments').delete().eq('id', id): a row that fails
\* the policy is skipped without an error
AttachmentDelete(db, uid, id, fault) ==
  IF fault THEN [db |-> db, error |-> "fetch_failed"]
  ELSE IF /\ id \in DOMAIN db.request_attachments
          /\ AttachmentSelectable(uid, db.request_attachments[id])
          /\ Users_can_delete_own_attachments_on_pending_requests(
                uid, db.request_attachments[id])
    THEN [db |-> [db EXCEPT !.request_attachments =
                     Restrict(db.request_attachments,
                              DOMAIN db.request_attachments \ {id})],
          error |-> NoError]
    ELSE [db |-> db, error |-> NoError]

\* supabase.from('project_requests').insert(vals).select('id').single()
RequestInsert(db, uid, vals, fault) ==
  IF fault THEN [db |-> db, error |-> "fetch_failed", id |-> Null]
  ELSE IF LevelCastFails(vals)
    THEN [db |-> db, error |-> "invalid_text_representation", id |-> Null]
  ELSE IF ~RequestInsertCheck(uid, NewRequestRow(vals))
    THEN [db |-> db, error |-> "denied", id |-> Null]
  ELSE IF vals.user_id \notin users
    THEN [db |-> db, error |-> "fk_violation", id |-> Null]
  ELSE [db |-> [db EXCEPT
                  !.project_requests =
                     [r \in DOMAIN db.project_requests \cup {db.nextRequest} |->
                        IF r = db.nextRequest THEN NewRequestRow(vals)
                                              ELSE db.project_requests[r]],
                  !.nextRequest = db.nextRequest + 1],
        error |-> NoError, id |-> db.nextRequest]

\* the rows and objects a handler leaves become the store's
Commit(db) ==
  /\ project_requests' = db.project_requests
  /\ nextRequest' = db.nextRequest
  /\ request_attachments' = db.request_attachments
  /\ nextAttachment' = db.nextAttachment
  /\ objects' = db.objects
  /\ nextObject' = db.nextObject

\* what a client may put into an attachment row
AttachmentInserts ==
  [request_id : RequestIds, user_id : UserIds, file_name : {"f1"},
   file_path : UserIds \X RequestIds \X {1}, file_size : {MAX_FILE_SIZE}, file_type : {"application/pdf"}]

\* .from('request_attachments').select('*')
SelectAttachments(c) ==
  /\ Idle
  /\ c \in users
  /\ lastOp' = Op("select_attachments", c, Null, <<>>, "ok",
                  {a \in DOMAIN request_attachments :
                      AttachmentSelectable(c, request_attachments[a])})
  /\ UNCHANGED <<authVars, requestVars, commentVars, notificationVars,
               attachmentVars, storageVars, clientVars, viewVars>>

\* .from('request_attachments').insert(vals)
InsertAttachment(c, vals) ==
  /\ Idle
  /\ c \in users
  /\ LET r == AttachmentInsert(Db, c, vals, FALSE) IN
     /\ r.error = NoError => nextAttachment <= MaxAttachments
     /\ Commit(r.db)
     /\ lastOp' = Op("insert_attachment", c,
                     IF r.error = NoError THEN nextAttachment ELSE Null, vals,
                     IF r.error = NoError THEN "ok" ELSE r.error,
                     IF r.error = NoError THEN {nextAttachment} ELSE {})
  /\ UNCHANGED <<authVars, commentVars, notificationVars, clientVars, viewVars>>

\* .from('request_attachments').delete().eq('id', id)
DeleteAttachment(c, id) ==
  /\ Idle
  /\ c \in users
  /\ id \in AttachmentIds
  /\ LET r == AttachmentDelete(Db, c, id, FALSE) IN
     /\ Commit(r.db)
     /\ lastOp' = Op("delete_attachment", c, id, <<>>, "ok",
                     DOMAIN request_attachments \ DOMAIN r.db.request_attachments)
  /\ UNCHANGED <<authVars, commentVars, notificationVars, clientVars, viewVars>>

\* supabase.storage.from('request-attachments').upload(name, file)
UploadObject(c, name, file) ==
  /\ Idle
  /\ c \in users
  /\ LET r == StorageUpload(Db, c, name, file, FALSE) IN
     /\ Commit(r.db)
     /\ lastOp' = Op("upload_object", c, name, file,
                     IF r.error = NoError THEN "ok" ELSE r.error,
                     DOMAIN r.db.objects \ DOMAIN objects)
  /\ UNCHANGED <<authVars, commentVars, notificationVars, clientVars, viewVars>>

\* supabase.storage.from('request-attachments').remove([name])
RemoveObject(c, name) ==
  /\ Idle
  /\ c \in users
  /\ LET r == StorageRemove(Db, c, name, FALSE) IN
     /\ Commit(r.db)
     /\ lastOp' = Op("remove_object", c, name, <<>>, "ok",
                     DOMAIN objects \ DOMAIN r.db.objects)
  /\ UNCHANGED <<authVars, commentVars, notificationVars, clientVars, viewVars>>

\* supabase.storage.from('request-attachments').move(name, to): an UPDATE of
\* the object's name, which finds no object the caller may update
MoveObject(c, name, to) ==
  /\ Idle
  /\ c \in users
  /\ IF /\ name \in DOMAIN objects
        /\ ObjectSelectable(c, name)
        /\ ObjectUpdateUsing(c, name)
        /\ to \notin DOMAIN objects
       THEN /\ objects' = [n \in (DOMAIN objects \ {name}) \cup {to} |->
                             IF n = to THEN objects[name] ELSE objects[n]]
            /\ lastOp' = Op("move_object", c, name, to, "ok", {to})
       ELSE /\ objects' = objects
            /\ lastOp' = Op("move_object", c, name, to, "not_found", {})
  /\ UNCHANGED <<authVars, requestVars, commentVars, notificationVars,
               attachmentVars, nextObject, clientVars, viewVars>>

\* ------------------------------------------------- client: pages
\* Dashboard: the signed-in identity sees RequestForm; an admin is sent on to
\* the admin dashboard
OpenDashboard(c) ==
  /\ Idle
  /\ c \in users
  /\ ~has_role(c, "admin")
  /\ page' = [user |-> c, request |-> Null, status |-> NullText, attachments |-> <<>>]
  /\ pendingFiles' = <<>>
  /\ formData' = NoForm
  /\ lastOp' = Op("Dashboard", c, Null, <<>>, "ok", {})
  /\ UNCHANGED <<authVars, requestVars, commentVars, notificationVars,
               attachmentVars, storageVars, adminVars, navVars>>

\* mutant: the lookup tells a hidden row from a missing one
fetchRequest_Forbidden(uid, id, reqs) ==
  IF id \in DOMAIN reqs /\ RequestSelectable(uid, reqs[id])
    THEN [error |-> NoError, request |-> id, status |-> reqs[id].status,
          navigate |-> NullText]
    ELSE IF id \in DOMAIN reqs
      THEN [error |-> "forbidden", request |-> Null, status |-> NullText,
            navigate |-> "/dashboard"]
      ELSE [error |-> "PGRST116", request |-> Null, status |-> NullText,
            navigate |-> "/dashboard"]

\* RequestDetail.fetchRequest for identity uid against the requests reqs:
\* .select('*').eq('id', id).single() fails unless exactly one row comes back
fetchRequest(uid, id, reqs) ==
  LET data == {r \in DOMAIN reqs : r = id /\ RequestSelectable(uid, reqs[r])} IN
  IF Cardinality(data) # 1
    THEN [error |-> "PGRST116", request |-> Null, status |-> NullText,
          navigate |-> "/dashboard"]
    ELSE [error |-> NoError, request |-> id, status |-> reqs[id].status,
          navigate |-> NullText]

\* AttachmentList.fetchAttachments: .select('*').eq('request_id', requestId)
fetchAttachments(uid, requestId, atts) ==
  Restrict(atts, {a \in DOMAIN atts :
                    atts[a].request_id = requestId /\ AttachmentSelectable(uid, atts[a])})

\* RequestDetail for the request id, opened by identity c: fetchRequest, then
\* the AttachmentList of the request it found
OpenRequestDetail(c, id) ==
  /\ Idle
  /\ c \in users
  /\ LET r == fetchRequest(c, id, project_requests) IN
     /\ page' = IF r.error = NoError
                  THEN [user |-> c, request |-> r.request, status |-> r.status,
                        attachments |-> fetchAttachments(c, id, request_attachments)]
                  \* navigate('/dashboard'), which sends an admin on
                  ELSE IF has_role(c, "admin") THEN NoPage
                  ELSE [user |-> c, request |-> Null, status |-> NullText,
                        attachments |-> <<>>]
     /\ lastOp' = Op("fetchRequest", c, id, <<>>,
                     IF r.error = NoError THEN "ok" ELSE r.error, r)
  /\ pendingFiles' = <<>>
  /\ formData' = NoForm
  /\ UNCHANGED <<authVars, requestVars, commentVars, notificationVars,
               attachmentVars, storageVars, adminVars, navVars>>

\* ------------------------------------------------- client: file selection
\* mutant: the limit itself is refused
FileTooLarge_AtLimit(size) == size >= MAX_FILE_SIZE

FileTooLarge(size) == size > MAX_FILE_SIZE

\* handleFileSelect: the files that pass, and a toast for each that does not
RECURSIVE SelectFiles(_, _)
SelectFiles(files, acc) ==
  IF files = <<>> THEN acc
  ELSE LET file == Head(files) IN
    IF file.type \notin ALLOWED_TYPES
      THEN SelectFiles(Tail(files),
             [acc EXCEPT !.toasts = Append(@, <<"File type not allowed", file.name>>)])
    ELSE IF FileTooLarge(file.size)
      THEN SelectFiles(Tail(files),
             [acc EXCEPT !.toasts =
                Append(@, <<"File size exceeds 10MB limit", file.name>>)])
      ELSE SelectFiles(Tail(files), [acc EXCEPT !.validFiles = Append(@, file)])

\* the lists of files an <input type="file" multiple> may hand over
FileLists == {<<>>} \cup {<<f>> : f \in Files} \cup {<<f, g>> : f \in Files, g \in Files}

\* FileUpload is rendered on RequestDetail while the loaded request is pending,
\* RequestForm on the dashboard
FileInputShown ==
  /\ page.user # Null
  /\ page.request # Null => page.status = "pending"

\* handleFileSelect of FileUpload and of RequestForm
handleFileSelect(files) ==
  /\ Idle
  /\ FileInputShown
  /\ LET r == SelectFiles(files, [validFiles |-> <<>>, toasts |-> <<>>]) IN
     /\ Len(pendingFiles) + Len(r.validFiles) <= MaxFiles
     /\ pendingFiles' = pendingFiles \o r.validFiles
     /\ lastOp' = Op("handleFileSelect", page.user, Null, files, "ok", r)
  /\ UNCHANGED <<authVars, requestVars, commentVars, notificationVars,
               attachmentVars, storageVars, page, viewVars>>

\* ------------------------------------------------- client: upload
\* which calls made for a file do not reach the store
Faults == {"none", "upload", "insert", "insert+remove"}

\* every call reaches the store
NoFaults == {"none"}

\* mutant: the loop gives up at the first file that fails
RECURSIVE UploadLoop_StopAtFailure(_, _, _, _, _, _)
UploadLoop_StopAtFailure(acc, uid, requestId, files, faults, i) ==
  IF i > Len(files) THEN acc
  ELSE
    LET file == files[i]
        filePath == FilePath(uid, requestId, acc.db.nextObject)
        up == StorageUpload(acc.db, uid, filePath, file, faults[i] = "upload")
        row == [request_id |-> requestId, user_id |-> uid, file_name |-> file.name,
                file_path |-> filePath, file_size |-> file.size,
                file_type |-> file.type]
        ins == AttachmentInsert(up.db, uid, row, faults[i] \in {"insert", "insert+remove"})
        rm == StorageRemove(ins.db, uid, filePath, faults[i] = "insert+remove")
    IN
    IF up.error # NoError
      THEN [acc EXCEPT
              !.db = [acc.db EXCEPT !.nextObject = @ + 1],
              !.calls = Append(@, "storage.upload"),
              !.toasts = Append(@, <<"Failed to upload", file.name>>),
              !.attempts = Append(@, [file |-> file, path |-> filePath,
                                      outcome |-> "upload_failed"])]
    ELSE IF ins.error # NoError
      THEN [acc EXCEPT
              !.db = rm.db,
              !.calls = @ \o <<"storage.upload", "request_attachments.insert",
                               "storage.remove">>,
              !.toasts = Append(@, <<"Failed to save", file.name>>),
              !.attempts = Append(@, [file |-> file, path |-> filePath,
                                      outcome |-> "save_failed"])]
      ELSE UploadLoop_StopAtFailure(
             [acc EXCEPT
                !.db = ins.db,
                !.calls = @ \o <<"storage.upload", "request_attachments.insert">>,
                !.successCount = @ + 1,
                !.attempts = Append(@, [file |-> file, path |-> filePath,
                                        outcome |-> "uploaded"])],
             uid, requestId, files, faults, i + 1)

\* for (const { file } of pendingFiles) { ... } of uploadFiles, from the i-th
\* file on: upload, insert the row, remove the object again if the insert
\* failed. acc: the rows and objects so far, the store calls issued, the toasts
\* shown, the files tried
RECURSIVE UploadLoop(_, _, _, _, _, _)
UploadLoop(acc, uid, requestId, files, faults, i) ==
  IF i > Len(files) THEN acc
  ELSE
    LET file == files[i]
        filePath == FilePath(uid, requestId, acc.db.nextObject)
        up == StorageUpload(acc.db, uid, filePath, file, faults[i] = "upload")
        row == [request_id |-> requestId, user_id |-> uid, file_name |-> file.name,
                file_path |-> filePath, file_size |-> file.size,
                file_type |-> file.type]
        ins == AttachmentInsert(up.db, uid, row, faults[i] \in {"insert", "insert+remove"})
        \* the result of remove is not looked at
        rm == StorageRemove(ins.db, uid, filePath, faults[i] = "insert+remove")
    IN
    IF up.error # NoError
      THEN UploadLoop(
             [acc EXCEPT
                \* the generated name is not used again
                !.db = [acc.db EXCEPT !.nextObject = @ + 1],
                !.calls = Append(@, "storage.upload"),
                !.toasts = Append(@, <<"Failed to upload", file.name>>),
                !.attempts = Append(@, [file |-> file, path |-> filePath,
                                        outcome |-> "upload_failed"])],
             uid, requestId, files, faults, i + 1)
    ELSE IF ins.error # NoError
      THEN UploadLoop(
             [acc EXCEPT
                !.db = rm.db,
                !.calls = @ \o <<"storage.upload", "request_attachments.insert",
                                 "storage.remove">>,
                !.toasts = Append(@, <<"Failed to save", file.name>>),
                !.attempts = Append(@, [file |-> file, path |-> filePath,
                                        outcome |-> "save_failed"])],
             uid, requestId, files, faults, i + 1)
      ELSE UploadLoop(
             [acc EXCEPT
                !.db = ins.db,
                !.calls = @ \o <<"storage.upload", "request_attachments.insert">>,
                !.successCount = @ + 1,
                !.attempts = Append(@, [file |-> file, path |-> filePath,
                                        outcome |-> "uploaded"])],
             uid, requestId, files, faults, i + 1)

\* the loop over all of files, started on the rows and objects db
UploadAll(db, uid, requestId, files, faults) ==
  UploadLoop([db |-> db, calls |-> <<>>, toasts |-> <<>>, attempts |-> <<>>,
              successCount |-> 0],
             uid, requestId, files, faults, 1)

\* room for the rows and objects the files may make
RoomFor(files) ==
  /\ nextAttachment + Len(files) - 1 <= MaxAttachments
  /\ nextObject + Len(files) - 1 <= MaxFiles

\* FileUpload.uploadFiles, with the refresh of AttachmentList that
\* onUploadComplete asks for
FileUpload_uploadFiles(faults) ==
  /\ Idle
  /\ page.user # Null
  /\ page.request # Null
  /\ page.status = "pending"
  /\ pendingFiles # <<>>
  /\ RoomFor(pendingFiles)
  /\ LET r == UploadAll(Db, page.user, page.request, pendingFiles, faults) IN
     /\ Commit(r.db)
     /\ IF r.successCount > 0
          THEN /\ pendingFiles' = <<>>
               /\ page' = [page EXCEPT !.attachments =
                             fetchAttachments(page.user, page.request,
                                              r.db.request_attachments)]
          ELSE UNCHANGED <<pendingFiles, page>>
     /\ lastOp' = Op("uploadFiles", page.user, page.request,
                     [files |-> pendingFiles, faults |-> faults], "ok",
                     [toasts |-> IF r.successCount > 0
                                   THEN Append(r.toasts, <<"uploaded", r.successCount>>)
                                   ELSE r.toasts,
                      attempts |-> r.attempts,
                      calls |-> r.calls,
                      \* setUploading(false)
                      uploading |-> FALSE])
  /\ UNCHANGED <<authVars, commentVars, notificationVars, viewVars>>

\* ------------------------------------------------- client: the request form
\* RequestForm is mounted with the dashboard
FormShown == page.user # Null /\ page.request = Null

\* onChange of the title input
setTitle(title) ==
  /\ Idle
  /\ FormShown
  /\ formData' = [formData EXCEPT !.title = title]
  /\ lastOp' = Op("setTitle", page.user, Null, title, "ok", {})
  /\ UNCHANGED <<authVars, requestVars, commentVars, notificationVars,
               attachmentVars, storageVars, clientVars, adminVars, navVars>>

\* handleTypeChange(typeId, checked): a checkbox shows whether its id is in the
\* list, so it reports checked for an id that is not in it and the reverse
handleTypeChange(typeId, checked) ==
  /\ Idle
  /\ FormShown
  /\ checked = (\A i \in 1..Len(formData.projectTypes) : formData.projectTypes[i] # typeId)
  /\ formData' = [formData EXCEPT !.projectTypes =
                    IF checked THEN Append(@, typeId)
                               ELSE SelectSeq(@, LAMBDA t : t # typeId)]
  /\ lastOp' = Op("handleTypeChange", page.user, Null,
                  [typeId |-> typeId, checked |-> checked], "ok", {})
  /\ UNCHANGED <<authVars, requestVars, commentVars, notificationVars,
               attachmentVars, storageVars, clientVars, adminVars, navVars>>

\* onValueChange of the confidentiality select
setConfidentialityLevel(value) ==
  /\ Idle
  /\ FormShown
  /\ formData' = [formData EXCEPT !.confidentialityLevel = value]
  /\ lastOp' = Op("setConfidentialityLevel", page.user, Null, value, "ok", {})
  /\ UNCHANGED <<authVars, requestVars, commentVars, notificationVars,
               attachmentVars, storageVars, clientVars, adminVars, navVars>>

\* the session ends while the dashboard is shown: useAuth() gives no user, and
\* a submit that is under way finds the form as it was
SignOut ==
  /\ Idle
  /\ FormShown
  /\ page' = NoPage
  /\ lastOp' = Op("signOut", page.user, Null, <<>>, "ok", {})
  /\ UNCHANGED <<authVars, requestVars, commentVars, notificationVars,
               attachmentVars, storageVars, pendingFiles, viewVars>>

\* ------------------------------------------------- client: comments
\* a || b of JavaScript on text: b when a is null, undefined or empty
OrElse(a, b) == IF a \in {NullText, ""} THEN b ELSE a

\* .from('profiles').select('full_name').eq('user_id', id).single() for
\* identity uid: the name, or null unless exactly one row comes back
ProfileName(uid, id) ==
  IF id \in DOMAIN profiles /\ ProfileSelectable(uid, ProfileRow(id))
    THEN profiles[id].full_name
    ELSE NullText

\* fetchComments of MyRequests, of RequestDetail and of RequestDetailDialog:
\* the comments of the request the caller may read, each with the name looked
\* up for its author
commentsWithNames(uid, requestId) ==
  [k \in {k \in DOMAIN comments :
             comments[k].request_id = requestId /\ CommentSelectable(uid, comments[k])}
     |-> [comment |-> comments[k].comment,
          admin_id |-> comments[k].admin_id,
          admin_name |-> OrElse(ProfileName(uid, comments[k].admin_id), "Admin")]]

\* MyRequests.handleViewDetails(request) for a request of the list:
\* fetchComments(request.id)
MyRequests_fetchComments(requestId) ==
  /\ Idle
  /\ FormShown
  /\ requestId \in DOMAIN project_requests
  /\ RequestSelectable(page.user, project_requests[requestId])
  /\ lastOp' = Op("fetchComments", page.user, requestId, <<>>, "ok",
                  commentsWithNames(page.user, requestId))
  /\ UNCHANGED <<authVars, requestVars, commentVars, notificationVars,
               attachmentVars, storageVars, clientVars, viewVars>>

\* RequestDetail.fetchComments for the request the page is on
RequestDetail_fetchComments ==
  /\ Idle
  /\ page.user # Null
  /\ page.request # Null
  /\ lastOp' = Op("fetchComments", page.user, page.request, <<>>, "ok",
                  commentsWithNames(page.user, page.request))
  /\ UNCHANGED <<authVars, requestVars, commentVars, notificationVars,
               attachmentVars, storageVars, clientVars, viewVars>>

\* mutant: the error of the insert is not looked at
SubmitFailed_Never(req) == FALSE

\* if (error) { toast.error(...); return; }
SubmitFailed(req) == req.error # NoError

\* MyRequests.fetchRequests: .from('project_requests').select('*')
MyRequests_fetchRequests ==
  /\ Idle
  /\ FormShown
  /\ lastOp' = Op("MyRequests.fetchRequests", page.user, Null, <<>>, "ok",
                  Restrict(project_requests,
                           {id \in DOMAIN project_requests :
                               RequestSelectable(page.user, project_requests[id])}))
  /\ UNCHANGED <<authVars, requestVars, commentVars, notificationVars,
               attachmentVars, storageVars, clientVars, viewVars>>

\* the values handleSubmit hands to the insert
SubmittedValues(uid, form) ==
  [user_id |-> uid, title |-> form.title, project_types |-> form.projectTypes,
   confidentiality_level |-> form.confidentialityLevel, status |-> Keep]

\* RequestForm.handleSubmit: insert the request, then uploadFiles(request.id).
\* fault: the insert of the request does not reach the store
RequestForm_handleSubmit(fault, faults) ==
  /\ Idle
  /\ page.request = Null
  \* <Input id="title" required>
  /\ formData.title # ""
  /\ RoomFor(pendingFiles)
  /\ LET args == [form |-> formData, files |-> pendingFiles, faults |-> faults] IN
     IF page.user = Null
       THEN /\ lastOp' = Op("handleSubmit", Null, Null, args, "not_logged_in",
                            [toasts |-> <<<<"You must be logged in to submit a request">>>>,
                             attempts |-> <<>>, calls |-> <<>>])
            /\ UNCHANGED <<requestVars, attachmentVars, storageVars, pendingFiles,
                           formData>>
     ELSE IF Len(formData.projectTypes) = 0
       THEN /\ lastOp' = Op("handleSubmit", page.user, Null, args, "invalid",
                            [toasts |-> <<<<"Please select at least one project type">>>>,
                             attempts |-> <<>>, calls |-> <<>>])
            /\ UNCHANGED <<requestVars, attachmentVars, storageVars, pendingFiles,
                           formData>>
       ELSE
     LET req == RequestInsert(Db, page.user, SubmittedValues(page.user, formData), fault)
     IN
     /\ req.error = NoError => nextRequest <= MaxRequests
     /\ IF SubmitFailed(req)
          THEN /\ lastOp' = Op("handleSubmit", page.user, Null, args, req.error,
                               [toasts |-> <<<<"Failed to submit request">>>>,
                                attempts |-> <<>>,
                                calls |-> <<"project_requests.insert">>])
               /\ UNCHANGED <<requestVars, attachmentVars, storageVars, pendingFiles,
                              formData>>
          ELSE LET r == UploadAll(req.db, page.user, req.id, pendingFiles, faults) IN
               /\ Commit(r.db)
               /\ pendingFiles' = <<>>
               /\ formData' = NoForm
               /\ lastOp' = Op("handleSubmit", page.user, req.id, args, "ok",
                               [toasts |-> Append(r.toasts, <<"Request submitted">>),
                                attempts |-> r.attempts,
                                calls |-> <<"project_requests.insert">> \o r.calls])
  /\ UNCHANGED <<authVars, commentVars, notificationVars, page, adminVars, navVars>>

\* ------------------------------------------------- client: delete
\* which call of handleDelete does not reach the store
DeleteFaults == {"none", "remove", "delete"}

\* AttachmentList.handleDelete(attachment) for a row of the list as loaded,
\* confirmed by the user: remove the object, then delete the row
handleDelete(a, fault) ==
  /\ Idle
  /\ page.user # Null
  /\ page.request # Null
  /\ a \in DOMAIN page.attachments
  \* canDeleteThis
  /\ page.status = "pending"
  /\ page.user = page.attachments[a].user_id
  /\ LET attachment == page.attachments[a]
         rm == StorageRemove(Db, page.user, attachment.file_path, fault = "remove")
         del == AttachmentDelete(rm.db, page.user, a, fault = "delete")
     IN
     IF rm.error # NoError
       THEN /\ lastOp' = Op("handleDelete", page.user, a, [fault |-> fault],
                            "storage_error",
                            [toasts |-> <<"Failed to delete file from storage">>,
                             path |-> attachment.file_path])
            /\ UNCHANGED <<requestVars, attachmentVars, storageVars, page>>
       ELSE IF del.error # NoError
         THEN /\ Commit(del.db)
              /\ lastOp' = Op("handleDelete", page.user, a, [fault |-> fault],
                              "db_error",
                              [toasts |-> <<"Failed to delete attachment record">>,
                               path |-> attachment.file_path])
              /\ UNCHANGED page
         ELSE /\ Commit(del.db)
              /\ page' = [page EXCEPT !.attachments =
                            Restrict(@, DOMAIN page.attachments \ {a})]
              /\ lastOp' = Op("handleDelete", page.user, a, [fault |-> fault], "ok",
                              [toasts |-> <<"Attachment deleted">>,
                               path |-> attachment.file_path])
  /\ UNCHANGED <<authVars, commentVars, notificationVars, pendingFiles, viewVars>>

\* the answer reaches the caller
Respond ==
  /\ ~Idle
  /\ lastOp' = NoOp
  /\ UNCHANGED <<authVars, requestVars, commentVars, notificationVars,
               attachmentVars, storageVars, clientVars, viewVars>>

\* ------------------------------------------------- client: pages and guards
Routes == {"/", "/auth", "/dashboard", "/admin/login", "/admin/dashboard"}

\* the navigate() calls after which a walk over the four guarded pages has
\* come back to a page it left
MaxHops == 4

\* the role useAuth() holds for a signed-in identity once it has loaded it
RoleOf(u) == IF has_role(u, "admin") THEN "admin" ELSE "user"

\* what useAuth() can return: no session, or a session whose role is not
\* loaded yet or is the role of the identity; either while loading or not
AuthStates ==
  {[user |-> Null, role |-> r, loading |-> l] :
      r \in app_role \cup {NullText}, l \in BOOLEAN}
    \cup {[user |-> u, role |-> r, loading |-> l] :
            u \in users, r \in {NullText}, l \in BOOLEAN}
    \cup {[user |-> u, role |-> RoleOf(u), loading |-> l] :
            u \in users, l \in BOOLEAN}

\* no navigate() call
Stay == "stay"

\* the effect of each page: the route it navigates to, Stay when it does not navigate
AuthGuard(a) ==
  IF ~a.loading /\ a.user # Null
    THEN IF a.role = "admin" THEN "/admin/dashboard" ELSE "/dashboard"
    ELSE Stay

AdminLoginGuard(a) ==
  IF ~a.loading /\ a.user # Null /\ a.role = "admin"
    THEN "/admin/dashboard"
    ELSE Stay

\* mutant: Dashboard without the else-if branch that sends an admin away
DashboardGuard_NoAdminBranch(a) ==
  IF ~a.loading /\ a.user = Null THEN "/auth" ELSE Stay

DashboardGuard(a) ==
  IF ~a.loading /\ a.user = Null THEN "/auth"
  ELSE IF ~a.loading /\ a.role = "admin" THEN "/admin/dashboard"
  ELSE Stay

AdminDashboardGuard(a) ==
  IF ~a.loading
    THEN IF a.user = Null THEN "/admin/login"
         ELSE IF a.role # "admin" THEN "/dashboard"
         ELSE Stay
    ELSE Stay

GuardOf(r, a) ==
  CASE r = "/auth" -> AuthGuard(a)
    [] r = "/admin/login" -> AdminLoginGuard(a)
    [] r = "/dashboard" -> DashboardGuard(a)
    [] r = "/admin/dashboard" -> AdminDashboardGuard(a)
    [] OTHER -> Stay

\* AdminDashboard returns the spinner instead of its layout, and AllRequests
\* in it, while loading || !user || role !== 'admin'
AllRequestsRendered(r, a) ==
  r = "/admin/dashboard" /\ ~(a.loading \/ a.user = Null \/ a.role # "admin")

\* a component that is not rendered loses its state, and the answers to the
\* calls it made find nothing to update
Unmounted ==
  /\ requests' = <<>>
  /\ selectedRequest' = NoSelection
  /\ inflight' = {}

\* onAuthStateChange: useAuth() returns another value
AuthStateChange(a) ==
  /\ Idle
  /\ a # auth
  /\ auth' = a
  /\ hops' = 0
  /\ IF AllRequestsRendered(route, auth) /\ AllRequestsRendered(route, a)
       THEN UNCHANGED adminVars
       ELSE Unmounted
  /\ UNCHANGED <<authVars, requestVars, commentVars, notificationVars,
               attachmentVars, storageVars, clientVars, formData, route, lastOp>>

\* the address of a page is entered in the browser
Visit(r) ==
  /\ Idle
  /\ route' = r
  /\ hops' = 0
  /\ Unmounted
  /\ UNCHANGED <<authVars, requestVars, commentVars, notificationVars,
               attachmentVars, storageVars, clientVars, formData, auth, lastOp>>

\* the useEffect of the page shown calls navigate(to)
Navigate ==
  /\ Idle
  /\ GuardOf(route, auth) # Stay
  /\ hops < MaxHops
  /\ route' = GuardOf(route, auth)
  /\ hops' = hops + 1
  /\ Unmounted
  /\ UNCHANGED <<authVars, requestVars, commentVars, notificationVars,
               attachmentVars, storageVars, clientVars, formData, auth, lastOp>>

\* ------------------------------------------------- client: AllRequests
\* the status updates AllRequests may have in flight at a time
MaxInflight == 2

\* the requests the store holds when the admin page is opened
MaxListed == 2

\* the statuses the admin picks in the Select of a row or of the dialog
PickedStatuses == {"in_review"}

\* AllRequests.fetchRequests: select('*') ordered by created_at descending,
\* each request with the name looked up for its submitter
requestsWithSubmitters(uid) ==
  LET ids == {id \in DOMAIN project_requests :
                 RequestSelectable(uid, project_requests[id])}
      newest[S \in SUBSET ids] ==
        IF S = {} THEN <<>>
        ELSE LET top == CHOOSE id \in S : \A other \in S : other <= id
             IN <<[id |-> top,
                   status |-> project_requests[top].status,
                   submitter_name |->
                     OrElse(ProfileName(uid, project_requests[top].user_id),
                            "Unknown")]>> \o newest[S \ {top}]
  IN newest[ids]

AllRequests_fetchRequests ==
  /\ Idle
  /\ AllRequestsRendered(route, auth)
  /\ requests' = requestsWithSubmitters(auth.user)
  /\ lastOp' = Op("AllRequests.fetchRequests", auth.user, Null, <<>>, "ok",
                  [requests |-> requests'])
  /\ UNCHANGED <<authVars, requestVars, commentVars, notificationVars,
               attachmentVars, storageVars, clientVars, formData,
               selectedRequest, inflight, navVars>>

\* the View button of a row: setSelectedRequest(request)
setSelectedRequest(i) ==
  /\ Idle
  /\ AllRequestsRendered(route, auth)
  /\ i \in 1..Len(requests)
  /\ selectedRequest = NoSelection
  /\ selectedRequest' = requests[i]
  /\ UNCHANGED <<authVars, requestVars, commentVars, notificationVars,
               attachmentVars, storageVars, clientVars, formData,
               requests, inflight, navVars, lastOp>>

\* onClose of the dialog: setSelectedRequest(null)
onClose ==
  /\ Idle
  /\ selectedRequest # NoSelection
  /\ selectedRequest' = NoSelection
  /\ UNCHANGED <<authVars, requestVars, commentVars, notificationVars,
               attachmentVars, storageVars, clientVars, formData,
               requests, inflight, navVars, lastOp>>

\* handleStatusChange up to its await: the update is sent; the handler is the
\* one of the render that is shown, and `requests` in it is the list of that
\* render
StatusChangeSent(via, requestId, newStatus) ==
  [via |-> via, caller |-> auth.user, requestId |-> requestId,
   newStatus |-> newStatus, requests |-> requests, stage |-> "sent",
   error |-> NoError]

\* the Select of a row: onValueChange calls handleStatusChange(request.id, value)
AllRequests_handleStatusChange(i, newStatus) ==
  /\ Idle
  /\ AllRequestsRendered(route, auth)
  /\ i \in 1..Len(requests)
  /\ newStatus # requests[i].status
  /\ Cardinality(inflight) < MaxInflight
  /\ inflight' = inflight \cup {StatusChangeSent("list", requests[i].id, newStatus)}
  /\ UNCHANGED <<authVars, requestVars, commentVars, notificationVars,
               attachmentVars, storageVars, clientVars, formData,
               requests, selectedRequest, navVars, lastOp>>

\* the Select of the dialog: handleStatusChange(newStatus) calls
\* onStatusChange(request.id, newStatus), which is AllRequests.handleStatusChange
RequestDetailDialog_handleStatusChange(newStatus) ==
  /\ Idle
  /\ AllRequestsRendered(route, auth)
  /\ selectedRequest # NoSelection
  /\ newStatus # selectedRequest.status
  /\ Cardinality(inflight) < MaxInflight
  /\ inflight' = inflight \cup {StatusChangeSent("dialog", selectedRequest.id, newStatus)}
  /\ UNCHANGED <<authVars, requestVars, commentVars, notificationVars,
               attachmentVars, storageVars, clientVars, formData,
               requests, selectedRequest, navVars, lastOp>>

\* .from('project_requests').update({ status }).eq('id', requestId) reaches the
\* store, or fails on the way; rows the caller may not update are skipped
StatusUpdateArrives(x, fault) ==
  /\ Idle
  /\ x \in inflight
  /\ x.stage = "sent"
  /\ LET id == x.requestId
         hit == /\ ~fault
                /\ id \in DOMAIN project_requests
                /\ RequestSelectable(x.caller, project_requests[id])
                /\ RequestUpdateUsing(x.caller, project_requests[id])
                /\ RequestUpdateCheck(x.caller,
                     [project_requests[id] EXCEPT !.status = x.newStatus])
     IN /\ project_requests' =
             IF hit THEN [project_requests EXCEPT ![id].status = x.newStatus]
                    ELSE project_requests
        /\ inflight' = (inflight \ {x}) \cup
             {[x EXCEPT !.stage = "answered",
                        !.error = IF fault THEN "network" ELSE NoError]}
  /\ UNCHANGED <<authVars, nextRequest, commentVars, notificationVars,
               attachmentVars, storageVars, clientVars, formData,
               requests, selectedRequest, navVars, lastOp>>

\* requests.map(r => r.id === requestId ? { ...r, status: newStatus } : r),
\* on the list the handler closed over
StatusChanged(closed, current, requestId, newStatus) ==
  [i \in 1..Len(closed) |->
     IF closed[i].id = requestId
       THEN [closed[i] EXCEPT !.status = newStatus] ELSE closed[i]]

\* handleStatusChange after its await: if (!error) setRequests(...)
handleStatusChange_resume(x) ==
  /\ Idle
  /\ x \in inflight
  /\ x.stage = "answered"
  /\ inflight' = inflight \ {x}
  /\ requests' = IF x.error = NoError
                   THEN StatusChanged(x.requests, requests, x.requestId, x.newStatus)
                   ELSE requests
  /\ lastOp' = Op(IF x.via = "dialog" THEN "RequestDetailDialog.handleStatusChange"
                                      ELSE "AllRequests.handleStatusChange",
                  x.caller, x.requestId, [status |-> x.newStatus], x.error,
                  [requests |-> requests'])
  /\ UNCHANGED <<authVars, requestVars, commentVars, notificationVars,
               attachmentVars, storageVars, clientVars, formData,
               selectedRequest, navVars>>

\* the store when the admin page is opened: a requester, an admin, and the
\* requests the requester has submitted, all pending
InitAdmin ==
  /\ users = {1, 2}
  /\ nextUser = 3
  /\ raw_user_meta_data =
       [u \in {1, 2} |->
          [full_name |-> NullText,
           is_admin_signup |-> IF u = 2 THEN "true" ELSE NullText]]
  /\ profiles = [u \in {1, 2} |-> handle_new_user(u, NullText,
                    IF u = 2 THEN "true" ELSE NullText).profile]
  /\ user_roles = {handle_new_user(u, NullText,
                     IF u = 2 THEN "true" ELSE NullText).role : u \in {1, 2}}
  /\ project_requests =
       [id \in 1..MaxListed |->
          NewRequestRow([user_id |-> 1, title |-> "t1", status |-> Keep])]
  /\ nextRequest = MaxListed + 1
  /\ comments = <<>>
  /\ nextComment = 1
  /\ notifications = <<>>
  /\ nextNotification = 1
  /\ request_attachments = <<>>
  /\ nextAttachment = 1
  /\ objects = <<>>
  /\ nextObject = 1
  /\ page = NoPage
  /\ pendingFiles = <<>>
  /\ formData = NoForm
  /\ requests = <<>>
  /\ selectedRequest = NoSelection
  /\ inflight = {}
  /\ auth = NoSession
  /\ route = "/"
  /\ hops = 0
  /\ lastOp = NoOp

NextAdmin ==
  \/ \E a \in AuthStates : AuthStateChange(a)
  \/ \E r \in Routes : Visit(r)
  \/ Navigate
  \/ AllRequests_fetchRequests
  \/ \E i \in 1..MaxListed : setSelectedRequest(i)
  \/ onClose
  \/ \E i \in 1..MaxListed, s \in PickedStatuses : AllRequests_handleStatusChange(i, s)
  \/ \E s \in PickedStatuses : RequestDetailDialog_handleStatusChange(s)
  \/ \E x \in inflight, fault \in BOOLEAN : StatusUpdateArrives(x, fault)
  \/ \E x \in inflight : handleStatusChange_resume(x)
  \/ Respond

SpecAdmin == InitAdmin /\ [][NextAdmin]_vars

\* ------------------------------------------------- specification
Init ==
  /\ users = {}
  /\ nextUser = 1
  /\ raw_user_meta_data = <<>>
  /\ profiles = <<>>
  /\ user_roles = {}
  /\ project_requests = <<>>
  /\ nextRequest = 1
  /\ comments = <<>>
  /\ nextComment = 1
  /\ notifications = <<>>
  /\ nextNotification = 1
  /\ request_attachments = <<>>
  /\ nextAttachment = 1
  /\ objects = <<>>
  /\ nextObject = 1
  /\ page = NoPage
  /\ pendingFiles = <<>>
  /\ formData = NoForm
  /\ requests = <<>>
  /\ selectedRequest = NoSelection
  /\ inflight = {}
  /\ auth = NoSession
  /\ route = "/"
  /\ hops = 0
  /\ lastOp = NoOp

Next ==
  \/ \E n \in MetaNames, a \in {NullText, "true"} : SignUp(n, a)
  \/ \E c \in UserIds : SelectRequests(c)
  \/ \E c \in UserIds, v \in RequestInserts : InsertRequest(c, v)
  \/ \E c \in UserIds, id \in RequestIds, p \in RequestPatches : UpdateRequest(c, id, p)
  \/ \E c \in UserIds, id \in RequestIds : DeleteRequest(c, id)
  \/ \E c \in UserIds : SelectComments(c)
  \/ \E c \in UserIds, v \in CommentInserts : InsertComment(c, v)
  \/ \E c \in UserIds, id \in CommentIds, p \in CommentPatches : UpdateComment(c, id, p)
  \/ \E c \in UserIds, id \in CommentIds : DeleteComment(c, id)
  \/ \E c \in UserIds : SelectNotifications(c)
  \/ \E c \in UserIds, v \in NotificationInserts : InsertNotification(c, v)
  \/ \E c \in UserIds, id \in NotificationIds, p \in NotificationPatches :
        UpdateNotification(c, id, p)
  \/ \E c \in UserIds, id \in NotificationIds : DeleteNotification(c, id)
  \/ Respond

Spec == Init /\ [][Next]_vars

\* ------------------------------------------------- identities, profiles, roles
\* the calls that read or write auth.users, profiles and user_roles
NextAuth ==
  \/ \E n \in MetaNames, a \in MetaFlags : SignUp(n, a)
  \/ \E c \in UserIds : SelectProfiles(c)
  \/ \E c \in UserIds, v \in ProfileInserts : InsertProfile(c, v)
  \/ \E c \in UserIds, id \in UserIds, p \in ProfilePatches : UpdateProfile(c, id, p)
  \/ \E c \in UserIds, id \in UserIds : DeleteProfile(c, id)
  \/ \E c \in UserIds : SelectRoles(c)
  \/ \E c \in UserIds, v \in RoleRows : InsertRole(c, v)
  \/ \E c \in UserIds, old \in RoleRows, r \in app_role : UpdateRole(c, old, r)
  \/ \E c \in UserIds, old \in RoleRows : DeleteRole(c, old)
  \/ Respond

SpecAuth == Init /\ [][NextAuth]_vars

\* ------------------------------------------------- requests with attachments
\* signups by kind, without a display name
AttachSignUps == {NullText, "true"}

\* request creations that leave the status to its default, and updates that
\* leave the title alone
AttachRequestInserts == {v \in RequestInserts : v.status = Keep}

AttachRequestPatches == {p \in RequestPatches : p.title = Keep}

\* the calls on project_requests and request_attachments
NextAttach ==
  \/ \E a \in AttachSignUps : SignUp(NullText, a)
  \/ \E c \in UserIds, v \in AttachRequestInserts : InsertRequest(c, v)
  \/ \E c \in UserIds, id \in RequestIds, p \in AttachRequestPatches :
        UpdateRequest(c, id, p)
  \/ \E c \in UserIds, id \in RequestIds : DeleteRequest(c, id)
  \/ \E c \in UserIds : SelectAttachments(c)
  \/ \E c \in UserIds, v \in AttachmentInserts : InsertAttachment(c, v)
  \/ \E c \in UserIds, id \in AttachmentIds : DeleteAttachment(c, id)
  \/ Respond

SpecAttach == Init /\ [][NextAttach]_vars

\* ------------------------------------------------- the client
\* the status an admin sets on a request
StatusPatches == {p \in RequestPatches : p.user_id = Null /\ p.title = Keep}

\* the files picked in this session: of an allowed type and of the largest
\* size that is let through
ClientFileLists ==
  {fs \in FileLists :
      \A i \in 1..Len(fs) :
         fs[i].type = "application/pdf" /\ fs[i].size = MAX_FILE_SIZE}

\* one browser session at a time on Dashboard (RequestForm) or RequestDetail
\* (AttachmentList, FileUpload), next to the status changes of the admins and
\* the deletes of the owners
NextClient ==
  \/ \E a \in AttachSignUps : SignUp(NullText, a)
  \/ \E c \in UserIds, id \in RequestIds, p \in StatusPatches : UpdateRequest(c, id, p)
  \/ \E c \in UserIds, id \in RequestIds : DeleteRequest(c, id)
  \/ \E c \in UserIds : OpenDashboard(c)
  \/ \E c \in UserIds, id \in RequestIds : OpenRequestDetail(c, id)
  \/ \E fs \in ClientFileLists : handleFileSelect(fs)
  \/ \E faults \in [1..Len(pendingFiles) -> Faults] : FileUpload_uploadFiles(faults)
  \/ \E t \in Titles : setTitle(t)
  \/ handleTypeChange("other", TRUE)
  \/ \E fault \in BOOLEAN, faults \in [1..Len(pendingFiles) -> Faults] :
        RequestForm_handleSubmit(fault, faults)
  \/ \E a \in AttachmentIds, fault \in DeleteFaults : handleDelete(a, fault)
  \/ Respond

SpecClient == Init /\ [][NextClient]_vars

\* ------------------------------------------------- the request form
\* the project types ticked in this session
FormTypes == {"research", "other"}

\* an update that rewrites the tags and the level of a request
FormPatches ==
  {[user_id |-> Null, title |-> Keep, status |-> Keep,
    project_types |-> <<"training">>, confidentiality_level |-> "public"]}

\* one file, picked once
FormFileLists == {fs \in ClientFileLists : Len(fs) = 1 /\ fs[1].name = "f1"}

\* the dashboard of a user: the form filled in, submitted and read back in
\* MyRequests, the session ending under it, and the updates of the owner
NextForm ==
  \/ SignUp(NullText, NullText)
  \/ \E c \in UserIds : OpenDashboard(c)
  \/ SignOut
  \/ \E t \in Titles : setTitle(t)
  \/ \E t \in FormTypes, checked \in BOOLEAN : handleTypeChange(t, checked)
  \/ \E v \in confidentiality_level : setConfidentialityLevel(v)
  \/ \E fs \in FormFileLists : handleFileSelect(fs)
  \/ \E fault \in BOOLEAN, faults \in [1..Len(pendingFiles) -> Faults] :
        RequestForm_handleSubmit(fault, faults)
  \/ \E c \in UserIds, id \in RequestIds, p \in FormPatches : UpdateRequest(c, id, p)
  \/ MyRequests_fetchRequests
  \/ Respond

SpecForm == Init /\ [][NextForm]_vars

\* ------------------------------------------------- reading comments
\* requests of a user, comments of an admin, and the owner reading them on the
\* dashboard and on RequestDetail
NextComments ==
  \/ \E n \in MetaNames, a \in AttachSignUps : SignUp(n, a)
  \/ \E c \in UserIds, v \in AttachRequestInserts : InsertRequest(c, v)
  \/ \E c \in UserIds, v \in CommentInserts : InsertComment(c, v)
  \/ \E c \in UserIds : OpenDashboard(c)
  \/ \E c \in UserIds, id \in RequestIds : OpenRequestDetail(c, id)
  \/ \E id \in RequestIds : MyRequests_fetchComments(id)
  \/ RequestDetail_fetchComments
  \/ Respond

SpecComments == Init /\ [][NextComments]_vars

\* ------------------------------------------------- requests and what they own
\* comment updates that move a comment to another request or leave it
CascadeCommentPatches == {p \in CommentPatches : p.admin_id = Null /\ p.comment = Keep}

\* the calls that create and delete requests, comments, notifications and
\* attachment rows
NextCascade ==
  \/ \E a \in AttachSignUps : SignUp(NullText, a)
  \/ \E c \in UserIds, v \in AttachRequestInserts : InsertRequest(c, v)
  \/ \E c \in UserIds, id \in RequestIds : DeleteRequest(c, id)
  \/ \E c \in UserIds, v \in CommentInserts : InsertComment(c, v)
  \/ \E c \in UserIds, id \in CommentIds, p \in CascadeCommentPatches :
        UpdateComment(c, id, p)
  \/ \E c \in UserIds, id \in CommentIds : DeleteComment(c, id)
  \/ \E c \in UserIds, v \in NotificationInserts : InsertNotification(c, v)
  \/ \E c \in UserIds, id \in NotificationIds : DeleteNotification(c, id)
  \/ \E c \in UserIds, v \in AttachmentInserts : InsertAttachment(c, v)
  \/ \E c \in UserIds, id \in AttachmentIds : DeleteAttachment(c, id)
  \/ Respond

SpecCascade == Init /\ [][NextCascade]_vars

\* ------------------------------------------------- the bucket
\* the file a client writes directly
DirectFiles == {f \in Files : f.name = "f1" /\ f.type = "application/pdf"
                                /\ f.size = MAX_FILE_SIZE}

\* writes to the bucket: direct calls under any key, and the two upload loops
\* of the client, every call reaching the store
NextStorage ==
  \/ \E a \in AttachSignUps : SignUp(NullText, a)
  \/ \E c \in UserIds, name \in FilePaths, f \in DirectFiles : UploadObject(c, name, f)
  \/ \E c \in UserIds, name \in FilePaths : RemoveObject(c, name)
  \/ \E c \in UserIds, name \in FilePaths, to \in FilePaths : MoveObject(c, name, to)
  \/ \E c \in UserIds : OpenDashboard(c)
  \/ \E c \in UserIds, id \in RequestIds : OpenRequestDetail(c, id)
  \/ \E t \in Titles : setTitle(t)
  \/ handleTypeChange("other", TRUE)
  \/ \E fs \in FormFileLists : handleFileSelect(fs)
  \/ \E faults \in [1..Len(pendingFiles) -> NoFaults] : FileUpload_uploadFiles(faults)
  \/ \E faults \in [1..Len(pendingFiles) -> NoFaults] :
        RequestForm_handleSubmit(FALSE, faults)
  \/ Respond

SpecStorage == Init /\ [][NextStorage]_vars

\* ------------------------------------------------- file selection
\* the two file inputs, handed files of every type and size, and the uploads
\* of what they let through, every call reaching the store

NextSelect ==
  \/ SignUp(NullText, NullText)
  \/ \E c \in UserIds : OpenDashboard(c)
  \/ \E c \in UserIds, id \in RequestIds : OpenRequestDetail(c, id)
  \/ \E fs \in FileLists : handleFileSelect(fs)
  \/ \E faults \in [1..Len(pendingFiles) -> NoFaults] : FileUpload_uploadFiles(faults)
  \/ \E t \in Titles : setTitle(t)
  \/ handleTypeChange("other", TRUE)
  \/ \E faults \in [1..Len(pendingFiles) -> NoFaults] :
        RequestForm_handleSubmit(FALSE, faults)
  \/ Respond

SpecSelect == Init /\ [][NextSelect]_vars

\* ------------------------------------------------- notation of the properties
Called(ops) == lastOp.op \in ops
Caller == lastOp.caller
Target == lastOp.target
Args == lastOp.args
Before == lastOp.before
IsAdmin(u) == has_role(u, "admin")

\* the request / comment / notification a call aimed at, as it was before the call
TargetRequestBefore == Before.project_requests[Target]
TargetCommentBefore == Before.comments[Target]
TargetNotificationBefore == Before.notifications[Target]

\* ------------------------------------------------- C1
\* C1: a read of project requests by an identity without admin role never
\* returns a request owned by somebody else, whatever the request's status.
C1_NonAdminReadsNoForeignRequest ==
  (Called({"select_requests"}) /\ ~IsAdmin(Caller)) =>
     \A id \in DOMAIN project_requests :
        project_requests[id].user_id # Caller => id \notin lastOp.rows

C1_Witness ==
  /\ Called({"select_requests"})
  /\ ~IsAdmin(Caller)
  /\ \E id \in DOMAIN project_requests :
        /\ project_requests[id].user_id # Caller
        /\ project_requests[id].status # "pending"
  /\ lastOp.rows = {}

\* ------------------------------------------------- C2
\* C2: an update or delete of a non-pending request by its non-admin owner
\* fails with authorization-denied and leaves the row unchanged.
C2_OwnerWriteOnLockedRequestDenied ==
  (/\ Called({"update_request", "delete_request"})
   /\ Target \in DOMAIN Before.project_requests
   /\ TargetRequestBefore.user_id = Caller
   /\ TargetRequestBefore.status # "pending"
   /\ ~IsAdmin(Caller))
  => (/\ lastOp.result = "denied"
      /\ Target \in DOMAIN project_requests
      /\ project_requests[Target] = TargetRequestBefore)

\* ------------------------------------------------- C3
\* C3: no update issued by a caller without admin role changes the status of
\* any request, the caller's own pending requests included.
C3_OnlyAdminChangesStatus ==
  (Called({"update_request"}) /\ ~IsAdmin(Caller)) =>
     \A id \in DOMAIN Before.project_requests :
        /\ id \in DOMAIN project_requests
        /\ project_requests[id].status = Before.project_requests[id].status

\* the owner's update of its own pending request reached for the status and was
\* refused
C3_Witness ==
  /\ Called({"update_request"})
  /\ ~IsAdmin(Caller)
  /\ Target \in DOMAIN Before.project_requests
  /\ TargetRequestBefore.user_id = Caller
  /\ TargetRequestBefore.status = "pending"
  /\ Args.status \in request_status \ {"pending"}
  /\ lastOp.result = "denied"

\* ------------------------------------------------- C4
\* C4: a status update of an existing request to any of the four values, issued
\* by an admin, succeeds whatever the current status and leaves the request with
\* that status; approved and rejected are not terminal.
C4_AdminSetsAnyStatus ==
  (/\ Called({"update_request"})
   /\ IsAdmin(Caller)
   /\ Target \in DOMAIN Before.project_requests
   /\ Args.status \in request_status
   /\ Args.user_id = Null
   /\ Args.title = Keep)
  => (/\ lastOp.result = "ok"
      /\ lastOp.rows = {Target}
      /\ Target \in DOMAIN project_requests
      /\ project_requests[Target].status = Args.status)

\* an admin who is not the owner reverts an approved request to pending
C4_Witness ==
  /\ Called({"update_request"})
  /\ IsAdmin(Caller)
  /\ Target \in DOMAIN Before.project_requests
  /\ TargetRequestBefore.user_id # Caller
  /\ TargetRequestBefore.status = "approved"
  /\ Args = [user_id |-> Null, title |-> Keep, status |-> "pending"]
  /\ project_requests[Target].status = "pending"

\* ------------------------------------------------- C5
\* C5: a request has status pending right after its creation, whatever values
\* the create call supplies.
C5_CreatedPending ==
  (Called({"insert_request"}) /\ lastOp.result = "ok") =>
     project_requests[Target].status = "pending"

\* ------------------------------------------------- C6
\* C6: no call changes the owner of an existing request, and a request is
\* created only with owner = caller.
C6_OwnerNeverChanges ==
  /\ \A id \in DOMAIN Before.project_requests \cap DOMAIN project_requests :
        project_requests[id].user_id = Before.project_requests[id].user_id
  /\ (Called({"insert_request"}) /\ lastOp.result = "ok") =>
        project_requests[Target].user_id = Caller

\* ------------------------------------------------- C7
NewNotifications == DOMAIN notifications \ DOMAIN Before.notifications

\* C7: a comment insert that succeeds is an admin's and creates, in the same
\* step, exactly one notification: it references the comment and its request,
\* its recipient is the request's owner and it is unread; an insert that fails
\* leaves neither a comment nor a notification.
C7_CommentCreatesOneNotification ==
  Called({"insert_comment"}) =>
    IF lastOp.result = "ok"
      THEN /\ IsAdmin(Caller)
           /\ Target \in DOMAIN comments \ DOMAIN Before.comments
           /\ Cardinality(NewNotifications) = 1
           /\ \A n \in NewNotifications :
                 /\ notifications[n].comment_id = Target
                 /\ notifications[n].request_id = comments[Target].request_id
                 /\ notifications[n].user_id =
                      project_requests[comments[Target].request_id].user_id
                 /\ notifications[n].is_read = FALSE
           /\ \A n \in DOMAIN Before.notifications :
                 n \in DOMAIN notifications
                   /\ notifications[n] = Before.notifications[n]
      ELSE /\ comments = Before.comments
           /\ notifications = Before.notifications

\* an admin commented on a request of another identity
C7_Witness ==
  /\ Called({"insert_comment"})
  /\ lastOp.result = "ok"
  /\ project_requests[comments[Target].request_id].user_id # Caller
  /\ \E n \in NewNotifications :
        notifications[n].user_id # Caller /\ notifications[n].comment_id = Target

\* ------------------------------------------------- C8
\* C8: a direct insert into notifications by a client is denied, so that every
\* notification was made by the comment trigger and corresponds to a comment.
C8_NoDirectNotificationInsert ==
  /\ Called({"insert_notification"}) =>
        lastOp.result = "denied" /\ notifications = Before.notifications
  /\ \A n \in DOMAIN notifications :
        /\ notifications[n].comment_id \in DOMAIN comments
        /\ notifications[n].request_id = comments[notifications[n].comment_id].request_id

\* ------------------------------------------------- C9
\* the notifications addressed to somebody else than the caller, before the call
ForeignNotifications ==
  {n \in DOMAIN Before.notifications : Before.notifications[n].user_id # Caller}

\* those among them that the comment trigger made
ForeignTriggerNotifications ==
  {n \in ForeignNotifications : Before.notifications[n].message # ForgedMessage}

Untouched(n) ==
  n \in DOMAIN notifications /\ notifications[n] = Before.notifications[n]

ChangedComments ==
  {k \in DOMAIN Before.comments \cup DOMAIN comments :
      \/ k \notin DOMAIN Before.comments
      \/ k \notin DOMAIN comments
      \/ comments[k] # Before.comments[k]}

\* the author of comment k before and after the call is the caller
AuthoredByCaller(k) ==
  /\ k \in DOMAIN Before.comments => Before.comments[k].admin_id = Caller
  /\ k \in DOMAIN comments => comments[k].admin_id = Caller

OwnerLookupFailed == Args.request_id \notin DOMAIN Before.project_requests

AdminNameLookupFailed == Args.admin_id \notin DOMAIN Before.profiles

\* C11: when an admin inserts a comment and the trigger's lookup of the request's
\* owner or of the admin's display name finds nothing, the insert still succeeds
\* and a notification is created, labelled 'Admin Unknown' when the name is the
\* one that was not found.
C11_TriggerLookupFailureKeepsComment ==
  (/\ Called({"insert_comment"})
   /\ IsAdmin(Caller)
   /\ Args.admin_id = Caller
   /\ OwnerLookupFailed \/ AdminNameLookupFailed)
  => (/\ lastOp.result = "ok"
      /\ Target \in DOMAIN comments
      /\ \E n \in NewNotifications :
            /\ notifications[n].comment_id = Target
            /\ AdminNameLookupFailed => notifications[n].message.admin = "Unknown")

\* ------------------------------------------------- C16
RolesOf(u) == {r \in user_roles : r.user_id = u}

\* C16: creating an identity provisions, in the same step, exactly one profile
\* row and exactly one role row for it; the role is admin when the metadata flag
\* is_admin_signup is true and user otherwise, an absent flag counting as false;
\* the rows of the other identities stay as they were, and a signup that fails
\* leaves no row at all.
C16_SignUpProvisionsProfileAndRole ==
  Called({"sign_up"}) =>
    IF lastOp.result = "ok"
      THEN /\ Target \in users
           /\ Target \notin DOMAIN Before.profiles
           /\ DOMAIN profiles = DOMAIN Before.profiles \cup {Target}
           /\ \A u \in DOMAIN Before.profiles : profiles[u] = Before.profiles[u]
           /\ user_roles \ Before.user_roles = RolesOf(Target)
           /\ Before.user_roles \subseteq user_roles
           /\ RolesOf(Target) =
                {[user_id |-> Target,
                  role |-> IF Args.is_admin_signup = "true" THEN "admin" ELSE "user"]}
      ELSE /\ profiles = Before.profiles
           /\ user_roles = Before.user_roles
           /\ DOMAIN profiles = users

\* a signup without the flag made a user, next to an identity made admin by it
C16_Witness ==
  /\ Called({"sign_up"})
  /\ lastOp.result = "ok"
  /\ Args.is_admin_signup = NullText
  /\ RolesOf(Target) = {[user_id |-> Target, role |-> "user"]}
  /\ \E u \in users \ {Target} : has_role(u, "admin")

\* ------------------------------------------------- C17
\* C17: every identity has at least one role assignment; no call of a client
\* (an insert, update or delete on user_roles, or any write of a profile) adds,
\* changes or removes a role assignment; an identity that signed up as user
\* never has the role admin.
C17_RolesSetOnlyBySignUp ==
  /\ \A u \in users : RolesOf(u) # {}
  /\ (~Idle /\ ~Called({"sign_up"})) => user_roles = Before.user_roles
  /\ \A u \in users :
        has_role(u, "admin") => raw_user_meta_data[u].is_admin_signup = "true"

\* an identity that signed up as user asked for the role admin and was refused
C17_Witness ==
  /\ Called({"insert_role"})
  /\ raw_user_meta_data[Caller].is_admin_signup # "true"
  /\ Args = [user_id |-> Caller, role |-> "admin"]
  /\ lastOp.result = "denied"
  /\ ~has_role(Caller, "admin")

\* ------------------------------------------------- C15
RemovedAttachments == DOMAIN Before.request_attachments \ DOMAIN request_attachments

\* C15: an attachment row is deleted only by its uploader and only while the
\* parent request is pending: whatever call removes an attachment row, its
\* caller is the row's uploader and the row's request was pending; a delete by
\* any other identity, an admin included, or on a request that is not pending
\* removes no attachment row.
C15_OnlyUploaderDeletesWhilePending ==
  ~Idle =>
    \A a \in RemovedAttachments :
       LET row == Before.request_attachments[a] IN
       /\ row.user_id = Caller
       /\ row.request_id \in DOMAIN Before.project_requests
       /\ Before.project_requests[row.request_id].status = "pending"

\* ------------------------------------------------- notation of the client flows
\* what a handler showed and did: its toasts and, for an upload, one entry for
\* each file it tried
Report == lastOp.rows

\* an upload loop ran: FileUpload.uploadFiles, or RequestForm.uploadFiles inside
\* a handleSubmit whose request insert succeeded
Uploaded == Called({"uploadFiles", "handleSubmit"}) /\ lastOp.result = "ok"

NewAttachments == DOMAIN request_attachments \ DOMAIN Before.request_attachments

\* ------------------------------------------------- C12
\* C12: after an upload loop has finished, no object exists under the path of
\* a file whose storage write succeeded and whose metadata insert failed,
\* whatever the outcome of the calls made after the failed insert.
C12_FailedSaveLeavesNoObject ==
  Uploaded =>
    \A i \in DOMAIN Report.attempts :
       Report.attempts[i].outcome = "save_failed" =>
          Report.attempts[i].path \notin DOMAIN objects

\* ------------------------------------------------- C13
\* C13: when handleDelete has finished on an attachment whose row and object
\* both existed, the object and the row either both exist or are both gone,
\* whatever the outcome of the storage remove and of the row delete.
C13_DeleteKeepsRowAndObjectTogether ==
  (/\ Called({"handleDelete"})
   /\ Target \in DOMAIN Before.request_attachments
   /\ Report.path \in DOMAIN Before.objects)
  => (Target \in DOMAIN request_attachments <=> Report.path \in DOMAIN objects)

\* ------------------------------------------------- C14
\* C14: an attachment row is added only while its request is pending: the
\* request of every row that FileUpload.uploadFiles adds was pending when the
\* upload started, also when an admin changed the status after the owner loaded
\* the page.
C14_AttachmentsAddedOnlyWhilePending ==
  Called({"uploadFiles"}) =>
    \A a \in NewAttachments :
       /\ request_attachments[a].request_id \in DOMAIN Before.project_requests
       /\ Before.project_requests[request_attachments[a].request_id].status = "pending"

\* ------------------------------------------------- C18
\* the entries of the files that failed, in the order they were tried
FailedAttempts == SelectSeq(Report.attempts, LAMBDA x : x.outcome # "uploaded")

FailureToast(x) ==
  <<IF x.outcome = "upload_failed" THEN "Failed to upload" ELSE "Failed to save",
    x.file.name>>

\* the caller of the upload may add rows to the request: it owned the request
\* when the upload started, or made it in this submit
MayAttach ==
  Called({"handleSubmit"})
    \/ get_request_owner_in(Before.project_requests, Target) = Caller

\* C18: in an upload of several files the failure of one file neither stops the
\* loop nor undoes the attachments of its siblings: every pending file is tried
\* exactly once, in order; each failure is reported by a toast of its own that
\* names the file; a file all of whose calls reach the store is uploaded
\* whatever happened to the others, and what was uploaded is still there, row
\* and object, when the loop is over.
C18_UploadFailuresAreIndependent ==
  Uploaded =>
    LET files == Args.files
        attempts == Report.attempts IN
    /\ Len(attempts) = Len(files)
    /\ \A i \in 1..Len(files) : attempts[i].file = files[i]
    /\ \A i, j \in 1..Len(files) : i # j => attempts[i].path # attempts[j].path
    /\ Len(Report.toasts) \in {Len(FailedAttempts), Len(FailedAttempts) + 1}
    /\ \A k \in 1..Len(FailedAttempts) :
          Report.toasts[k] = FailureToast(FailedAttempts[k])
    /\ \A i \in 1..Len(files) :
          /\ (Args.faults[i] = "none" /\ MayAttach) => attempts[i].outcome = "uploaded"
          /\ attempts[i].outcome = "uploaded" =>
               /\ attempts[i].path \in DOMAIN objects
               /\ \E a \in NewAttachments :
                     /\ request_attachments[a].file_path = attempts[i].path
                     /\ request_attachments[a].file_name = files[i].name
                     /\ request_attachments[a].user_id = Caller

\* of two files the first failed, at the upload or at the insert, and the
\* second was uploaded
C18_Witness ==
  /\ Uploaded
  /\ Len(Args.files) = 2
  /\ Report.attempts[1].outcome # "uploaded"
  /\ Report.attempts[2].outcome = "uploaded"
  /\ Cardinality(NewAttachments) = 1

\* ------------------------------------------------- C20
\* C20: RequestDetail.fetchRequest gives the same observable outcome (error,
\* navigation, request shown, page left behind) for the id of a request that
\* exists but the caller may not read as for the id of no request: the outcome
\* of the lookup is the outcome it has on the requests without that row.
C20_HiddenRequestLooksMissing ==
  (/\ Called({"fetchRequest"})
   /\ Target \in DOMAIN Before.project_requests
   /\ ~RequestSelectable(Caller, TargetRequestBefore))
  => LET missing == Restrict(Before.project_requests,
                             DOMAIN Before.project_requests \ {Target}) IN
     /\ Report = fetchRequest(Caller, Target, missing)
     /\ Report.error = "PGRST116"
     /\ Report.navigate = "/dashboard"
     /\ page.request = Null
     /\ page.attachments = <<>>

\* a user asked for the request of somebody else
C20_Witness ==
  /\ Called({"fetchRequest"})
  /\ Target \in DOMAIN Before.project_requests
  /\ TargetRequestBefore.user_id # Caller
  /\ ~IsAdmin(Caller)
  /\ lastOp.result = "PGRST116"
  /\ page.request = Null

\* ------------------------------------------------- C19
\* what the claim lets through: an allowed type and at most 10,485,760 bytes
C19_Accepted(file) == file.type \in ALLOWED_TYPES /\ file.size <= 10485760

\* C19: handleFileSelect lets a file of an allowed type and of exactly
\* 10,485,760 bytes through and refuses one of 10,485,761 bytes or more with a
\* toast, without adding it to the pending list: the files added are those of
\* the input that are of an allowed type and at most 10,485,760 bytes, in
\* order, the others get one toast each; so no file above the limit is ever
\* pending or handed to the storage.
C19_SizeLimitIsInclusive ==
  /\ Called({"handleFileSelect"}) =>
        /\ Report.validFiles = SelectSeq(Args, C19_Accepted)
        /\ Len(Report.toasts) = Len(Args) - Len(Report.validFiles)
        /\ Len(pendingFiles) >= Len(Report.validFiles)
        /\ SubSeq(pendingFiles, Len(pendingFiles) - Len(Report.validFiles) + 1,
                  Len(pendingFiles)) = Report.validFiles
  /\ \A i \in 1..Len(pendingFiles) : pendingFiles[i].size <= 10485760
  /\ Uploaded =>
        \A i \in 1..Len(Report.attempts) : Report.attempts[i].file.size <= 10485760
  /\ \A name \in DOMAIN objects : objects[name].size <= 10485760

\* a file of exactly the limit was let through next to one a byte larger that
\* was refused
C19_Witness ==
  /\ Called({"handleFileSelect"})
  /\ Len(Args) = 2
  /\ Args[1].size = 10485761 /\ Args[1].type = "application/pdf"
  /\ Args[2].size = 10485760 /\ Args[2].type = "application/pdf"
  /\ Report.validFiles = <<Args[2]>>
  /\ Report.toasts = <<<<"File size exceeds 10MB limit", Args[1].name>>>>
  /\ Len(pendingFiles) > 0
  /\ pendingFiles[Len(pendingFiles)] = Args[2]

\* ------------------------------------------------- C21
\* the tags of an array of project types
Tags(types) == {types[i] : i \in 1..Len(types)}

\* C21: a request submitted with a non-empty set of project-type tags and a
\* confidentiality level and read back by its owner returns that tag set and
\* that level as long as no update happened in between: the row a successful
\* submit makes carries the tags and the level of the form, no call other than
\* an update changes the tags or the level of an existing request, and the
\* owner's read returns every request of the owner with the tags and the level
\* the store holds.
C21_SubmittedTagsAndLevelReadBack ==
  /\ (Called({"handleSubmit"}) /\ lastOp.result = "ok") =>
        /\ Target \in DOMAIN project_requests
        /\ project_requests[Target].user_id = Caller
        /\ Tags(project_requests[Target].project_types) = Tags(Args.form.projectTypes)
        /\ Tags(Args.form.projectTypes) # {}
        /\ project_requests[Target].confidentiality_level
             = Args.form.confidentialityLevel
  /\ (~Idle /\ ~Called({"update_request"})) =>
        \A id \in DOMAIN Before.project_requests \cap DOMAIN project_requests :
           /\ project_requests[id].project_types
                = Before.project_requests[id].project_types
           /\ project_requests[id].confidentiality_level
                = Before.project_requests[id].confidentiality_level
  /\ Called({"MyRequests.fetchRequests"}) =>
        \A id \in DOMAIN project_requests :
           project_requests[id].user_id = Caller =>
              /\ id \in DOMAIN Report
              /\ Tags(Report[id].project_types) = Tags(project_requests[id].project_types)
              /\ Report[id].confidentiality_level
                   = project_requests[id].confidentiality_level

\* the owner reads back a request of two tags, ticked in the order other,
\* research, and of level restricted
C21_Witness ==
  /\ Called({"MyRequests.fetchRequests"})
  /\ \E id \in DOMAIN Report :
        /\ Report[id].user_id = Caller
        /\ Report[id].project_types = <<"other", "research">>
        /\ Report[id].confidentiality_level = "restricted"

\* ------------------------------------------------- C26
\* the calls of a handler that write to the bucket or add an attachment row
UploadCalls(calls) ==
  {i \in 1..Len(calls) : calls[i] \in {"storage.upload", "request_attachments.insert"}}

\* C26: handleSubmit issues no storage write and no attachment insert before
\* the insert of the request has succeeded; without a signed-in user or without
\* a project type it issues no store call at all; and when the insert of the
\* request fails, no object and no attachment row is made and the form and the
\* pending files stay as they were.
C26_NothingBeforeTheRequestInsert ==
  Called({"handleSubmit"}) =>
    /\ UploadCalls(Report.calls) # {} =>
          /\ Report.calls[1] = "project_requests.insert"
          /\ 1 \notin UploadCalls(Report.calls)
          /\ Target \in DOMAIN project_requests \ DOMAIN Before.project_requests
    /\ (Caller = Null \/ Len(Args.form.projectTypes) = 0) =>
          /\ Report.calls = <<>>
          /\ lastOp.result # "ok"
    /\ lastOp.result # "ok" =>
          /\ project_requests = Before.project_requests
          /\ objects = Before.objects
          /\ request_attachments = Before.request_attachments
          /\ formData = Args.form
          /\ pendingFiles = Args.files

\* a submit with a file pending whose insert of the request failed
C26_Witness ==
  /\ Called({"handleSubmit"})
  /\ lastOp.result = "fetch_failed"
  /\ Len(Args.files) > 0
  /\ Report.calls = <<"project_requests.insert">>
  /\ objects = Before.objects
  /\ pendingFiles = Args.files
  /\ formData = Args.form

\* ------------------------------------------------- C22
\* C22: when the owner of a request, who is no admin, reads the comments on it,
\* every comment is shown with the display name stored in the profile of the
\* admin who wrote it.
C22_OwnerSeesAuthorName ==
  (/\ Called({"fetchComments"})
   /\ ~IsAdmin(Caller)
   /\ Target \in DOMAIN project_requests
   /\ project_requests[Target].user_id = Caller)
  => \A k \in DOMAIN Report :
        /\ Report[k].admin_id \in DOMAIN profiles
        /\ Report[k].admin_name = profiles[Report[k].admin_id].full_name

\* ------------------------------------------------- C23
\* C23: a read of comments returns a comment of request R only to R's owner or
\* to an identity with an admin role assignment; to every other identity it
\* returns no comment of R.
C23_CommentsReadByOwnerOrAdmin ==
  Called({"select_comments"}) =>
    \A k \in DOMAIN comments :
       k \in lastOp.rows <=>
          \/ IsAdmin(Caller)
          \/ project_requests[comments[k].request_id].user_id = Caller

\* an identity that is neither admin nor owner read while a comment existed
C23_Witness ==
  /\ Called({"select_comments"})
  /\ ~IsAdmin(Caller)
  /\ \E k \in DOMAIN comments :
        project_requests[comments[k].request_id].user_id # Caller
  /\ lastOp.rows = {}

\* ------------------------------------------------- C24
\* the comments, notifications and attachment rows of request r in the tables t
OwnedBy(t, r) ==
  [comments |-> {k \in DOMAIN t.comments : t.comments[k].request_id = r},
   notifications |-> {n \in DOMAIN t.notifications : t.notifications[n].request_id = r},
   request_attachments |->
     {a \in DOMAIN t.request_attachments : t.request_attachments[a].request_id = r}]

NothingOwned == [comments |-> {}, notifications |-> {}, request_attachments |-> {}]

\* C24: every comment, notification and attachment row references an existing
\* request: a delete of a request removes, in the same step, all comments,
\* notifications and attachment rows of that request, and none is created for
\* a request that does not exist.
C24_RowsReferenceExistingRequests ==
  /\ \A k \in DOMAIN comments : comments[k].request_id \in DOMAIN project_requests
  /\ \A n \in DOMAIN notifications :
        notifications[n].request_id \in DOMAIN project_requests
  /\ \A a \in DOMAIN request_attachments :
        request_attachments[a].request_id \in DOMAIN project_requests
  /\ (Called({"delete_request"}) /\ lastOp.rows = {Target}) =>
        /\ Target \notin DOMAIN project_requests
        /\ OwnedBy(Tables, Target) = NothingOwned
  /\ (/\ Called({"insert_comment", "insert_notification", "insert_attachment"})
      /\ Args.request_id \notin DOMAIN Before.project_requests) =>
        /\ lastOp.result # "ok"
        /\ comments = Before.comments
        /\ notifications = Before.notifications
        /\ request_attachments = Before.request_attachments

\* a request that had a comment, a notification and an attachment was deleted
C24_Witness ==
  /\ Called({"delete_request"})
  /\ lastOp.rows = {Target}
  /\ OwnedBy(Before, Target).comments # {}
  /\ OwnedBy(Before, Target).notifications # {}
  /\ OwnedBy(Before, Target).request_attachments # {}
  /\ comments = <<>>
  /\ notifications = <<>>
  /\ request_attachments = <<>>

\* ------------------------------------------------- C25
\* C25: every object written to the bucket has the id of the caller that wrote
\* it as the first segment of its key: a write under a key whose first segment
\* is another identity's id is denied, no call renames an object, and the
\* client builds every key as identityId/requestId/generatedFileName with
\* identityId the signed-in user.
C25_KeysStartWithTheWriter ==
  /\ (Called({"upload_object"}) /\ Target[1] # Caller) =>
        lastOp.result = "denied" /\ objects = Before.objects
  /\ \A name \in DOMAIN objects : objects[name].owner = name[1]
  /\ Called({"move_object"}) => objects = Before.objects
  /\ Uploaded =>
        \A i \in DOMAIN Report.attempts :
           /\ Report.attempts[i].path[1] = Caller
           /\ Report.attempts[i].path[2] = Target
           /\ Report.attempts[i].path[3] \in ObjectIds
           /\ Report.attempts[i].path[3] \notin {n[3] : n \in DOMAIN Before.objects}

\* an admin tried to write into the folder of another identity
C25_Witness ==
  /\ Called({"upload_object"})
  /\ IsAdmin(Caller)
  /\ Target[1] \in users \ {Caller}
  /\ lastOp.result = "denied"
  /\ Target \notin DOMAIN objects

\* ------------------------------------------------- C30
\* C30: when FileUpload.uploadFiles is over, the uploading flag is false, the
\* files whose storage write or metadata insert failed are still pending, in
\* their order, for the user to retry, and the files that were uploaded are no
\* longer pending.
C30_FailedFilesStayPending ==
  Called({"uploadFiles"}) =>
    /\ Report.uploading = FALSE
    /\ pendingFiles = [k \in 1..Len(FailedAttempts) |-> FailedAttempts[k].file]

\* ------------------------------------------------- C27
\* the status the store holds for every request of the local list
ListMatchesStore ==
  \A i \in 1..Len(requests) :
    /\ requests[i].id \in DOMAIN project_requests
    /\ requests[i].status = project_requests[requests[i].id].status

\* C27: whatever the order in which status changes were issued through
\* AllRequests.handleStatusChange and answered, once none of them is in flight
\* any more the local list shows for every request the status the store holds
\* (a change that ended with an error leaves the list and the store alone).
C27_ListMatchesStoreWhenSettled ==
  (AllRequestsRendered(route, auth) /\ inflight = {}) => ListMatchesStore

\* ------------------------------------------------- C28
\* C28: when a status change made from the open dialog has come back without
\* error and the store holds the new status for the request, the dialog, which
\* shows the status of the selected request, shows that status.
C28_DialogShowsNewStatus ==
  ( /\ Called({"RequestDetailDialog.handleStatusChange"})
    /\ lastOp.result = NoError
    /\ selectedRequest # NoSelection
    /\ selectedRequest.id = lastOp.target
    /\ project_requests[lastOp.target].status = lastOp.args.status )
  => selectedRequest.status = lastOp.args.status

\* ------------------------------------------------- C29
\* the page shown makes no navigate() call for the auth state as it is
Settled == ~auth.loading /\ GuardOf(route, auth) = Stay

\* the route is one of Auth, Dashboard and AdminDashboard, or a guard led to it
Guarded == route \in {"/auth", "/dashboard", "/admin/dashboard"} \/ hops > 0

\* AllRequests holds a list, a selected request or a pending status update
AllRequestsActive ==
  requests # <<>> \/ selectedRequest # NoSelection \/ inflight # {}

\* C29: for an auth state with loading over, the guards of the pages stop
\* navigating before a walk over the guarded pages could have come back to a
\* page it left, and where they stop a signed-in admin is on /admin/dashboard,
\* a signed-in identity that is no admin on /dashboard and a visitor without a
\* session on a login page; AllRequests is rendered, and has state, only while
\* the role is admin.
C29_GuardsSettle ==
  /\ hops < MaxHops
  /\ (Settled /\ Guarded) =>
       IF auth.user = Null THEN route \in {"/auth", "/admin/login"}
       ELSE IF auth.role = "admin" THEN route = "/admin/dashboard"
       ELSE route = "/dashboard"
  /\ (AllRequestsRendered(route, auth) \/ AllRequestsActive) =>
       (auth.user # Null /\ auth.role = "admin")

C29_Witness ==
  /\ hops > 0
  /\ Settled
  /\ auth.role = "admin"
  /\ route = "/admin/dashboard"
  /\ requests # <<>>

====
